---- MODULE Spec2Model ----
(***************************************************************************)
(* A model of mio's exclusive mapping object (basic_mmap) on the POSIX     *)
(* backend (the #else branches of include/mio/detail/mmap.ipp), together   *)
(* with the part of the operating system it talks to: the descriptor       *)
(* table (open/fstat/close) and the address space (mmap/msync/munmap).     *)
(*                                                                         *)
(* Every handler of the class is one action.  A handler is written as a    *)
(* function from a "world" (objects, descriptor table, address space, the  *)
(* OS calls issued so far by this handler) to a world, so that handlers    *)
(* that call each other (map -> unmap, ~basic_mmap -> sync -> unmap) are   *)
(* composed the way the code composes them.                                *)
(*                                                                         *)
(* The variables last and calls are history variables: they log one        *)
(* operation, the observed one, with the OS calls it issued, and a run     *)
(* ends with it; the operations before it run unlogged.  Every operation   *)
(* is so observed from every state the program can reach.                  *)
(*                                                                         *)
(* size_t / int64_t are SizeBits wide instead of 64 bits wide; all         *)
(* arithmetic on them wraps modulo 2^SizeBits as the C++ does mod 2^64.    *)
(***************************************************************************)
EXTENDS Integers, Sequences, FiniteSets, TLC

\* ------------------------------------------------------------------ bounds
PageSize == 4
SizeBits == 5
MaxFd == 3
NumSlots == 3
SlotPages == 4
NumWrappers == 2
MaxHeld == 1
NumThreads == 2
MaxCalls == 2

Modulus == 2^SizeBits
SlotSize == SlotPages * PageSize

\* ------------------------------------------------------- program constants
invalid_handle == -1
map_entire_file == 0
nullptr == 0

Objs == {"a", "b"}
Wrappers == 1 .. NumWrappers
Threads == 1 .. NumThreads
\* an empty std::shared_ptr
NullPtr == "null"
Fds == 0 .. (MaxFd - 1)
Slots == 1 .. NumSlots

\* size_t wrap-around and the int64_t reading of the same bits
U(x) == x % Modulus
S(x) == IF U(x) >= Modulus \div 2 THEN U(x) - Modulus ELSE U(x)

\* --------------------------------------------------------------- the files
\* "f" ends inside a page, "p" ends on a page boundary, "e" is empty
ExistingFiles == {"f", "p", "e"}
FileLen(f) ==
    IF f = "p" THEN 2 * PageSize
    ELSE IF f = "e" THEN 0
    ELSE 2 * PageSize + 2
\* the byte the test writes at position p of the file (printable ASCII cycle)
FileByte(f, p) == 33 + (p % 93)

\* ------------------------------------------------------------------ errors
\* std::error_code: a category and a value; the default-constructed one is clear
OK == [cat |-> "none", code |-> "0"]
invalid_argument == [cat |-> "generic", code |-> "EINVAL"]
bad_file_descriptor == [cat |-> "generic", code |-> "EBADF"]
SysError(e) == [cat |-> "system", code |-> e]

\* ------------------------------------------------------------------- state
VARIABLES objs, alive, fds, maps, calls, last, mode, scope

\* the shared wrappers (basic_shared_mmap): which wrappers exist, the object
\* each pimpl_ points at, each object's shared_ptr owner count, and the
\* shared_ptr copies the caller got from get_shared_ptr() and still holds
VARIABLES wlive, pimpl, use_count, held

\* page_size(): the granularity the OS reports, the function's static local
\* (its initialisation state and value), the number of OS queries made, and
\* each thread's position, calls made, value returned and offset aligned
VARIABLES granularity, static_page_size, queries, thr

sharedVars == <<wlive, pimpl, use_count, held>>
pageVars == <<granularity, static_page_size, queries, thr>>

vars == <<objs, alive, fds, maps, calls, last, mode, scope, sharedVars, pageVars>>

\* basic_mmap's members as default-initialised
DefaultObj ==
    [ data_ |-> nullptr,
      length_ |-> 0,
      mapped_length_ |-> 0,
      file_handle_ |-> invalid_handle,
      is_handle_internal_ |-> FALSE ]

ClosedFd == [open |-> FALSE, file |-> "none", by |-> "none"]
FreeSlot == [live |-> FALSE, file |-> "none", fd |-> invalid_handle, off |-> 0, len |-> 0,
             viaPath |-> FALSE]

\* the part of the state the handlers transform
World == [objs |-> objs, fds |-> fds, maps |-> maps, calls |-> <<>>, errno |-> "0"]

\* one OS call as the handlers' log records it
Call(name, fd, addr, len, off, ok) ==
    [call |-> name, fd |-> fd, addr |-> addr, len |-> len, off |-> off, ok |-> ok]

Logged(w, c) == [w EXCEPT !.calls = Append(@, c)]
Failed(w, c, e) == [Logged(w, c) EXCEPT !.errno = e]

\* --------------------------------------------------------- accessors
is_open(obj) == obj.file_handle_ # invalid_handle
length(obj) == obj.length_
size(obj) == length(obj)
empty(obj) == length(obj) = 0
mapped_length(obj) == obj.mapped_length_
data(obj) == obj.data_
file_handle(obj) == obj.file_handle_
mapping_handle(obj) == obj.file_handle_
is_mapped(obj) == is_open(obj)
mapping_offset(obj) == U(obj.mapped_length_ - obj.length_)
\* mutant: the user's pointer is taken for the start of the OS mapping
get_mapping_start_Data(obj) == obj.data_

get_mapping_start(obj) ==
    IF obj.data_ = nullptr THEN nullptr ELSE obj.data_ - mapping_offset(obj)

\* ------------------------------------------------------------ page.hpp
page_size == PageSize

\* mutant: rounds up to the next multiple
align_to_Up(offset, page_size_) == ((offset + page_size_ - 1) \div page_size_) * page_size_

\* offset / page_size_ * page_size_
align_to(offset, page_size_) == (offset \div page_size_) * page_size_
make_offset_page_aligned(offset) == align_to(offset, page_size)

\* mutant: the guard of the static local lets a thread in while another one
\* is still initializing it
guard_acquire_Racy(sps) == IF sps.state = "done" THEN "read" ELSE "init"

\* the guard of page_size()'s static local: an initialized static is read,
\* the first thread to arrive initializes it, and any other thread waits
\* until the initialization is done
guard_acquire(sps) ==
    IF sps.state = "done" THEN "read"
    ELSE IF sps.state = "uninit" THEN "init"
    ELSE "wait"

\* ------------------------------------------------- the operating system
Min(set) == CHOOSE x \in set : \A y \in set : x <= y
FreeFds(w) == {fd \in Fds : ~w.fds[fd].open}
FreeSlots(w) == {s \in Slots : ~w.maps[s].live}
SlotBase(s) == s * SlotSize
Pages(len) == (len + PageSize - 1) \div PageSize

\* open(2): the lowest unused descriptor, ENOENT for a missing file, EMFILE
\* when the table is full
OsOpen(w, path, who) ==
    IF path \notin ExistingFiles
    THEN [w |-> Failed(w, Call("open", invalid_handle, 0, 0, 0, FALSE), "ENOENT"),
          ret |-> invalid_handle]
    ELSE IF FreeFds(w) = {}
    THEN [w |-> Failed(w, Call("open", invalid_handle, 0, 0, 0, FALSE), "EMFILE"),
          ret |-> invalid_handle]
    ELSE LET fd == Min(FreeFds(w)) IN
         [w |-> [Logged(w, Call("open", fd, 0, 0, 0, TRUE))
                    EXCEPT !.fds[fd] = [open |-> TRUE, file |-> path, by |-> who]],
          ret |-> fd]

\* close(2): EBADF for a descriptor that is not open
OsClose(w, fd) ==
    IF fd \in Fds /\ w.fds[fd].open
    THEN [Logged(w, Call("close", fd, 0, 0, 0, TRUE)) EXCEPT !.fds[fd] = ClosedFd]
    ELSE Failed(w, Call("close", fd, 0, 0, 0, FALSE), "EBADF")

\* fstat(2): the file's length, EBADF for a descriptor that is not open;
\* fault = "stat" is an I/O failure of the query itself
OsFstat(w, fd, fault) ==
    IF ~(fd \in Fds /\ w.fds[fd].open)
    THEN [w |-> Failed(w, Call("fstat", fd, 0, 0, 0, FALSE), "EBADF"), ret |-> -1, size |-> 0]
    ELSE IF fault = "stat"
    THEN [w |-> Failed(w, Call("fstat", fd, 0, 0, 0, FALSE), "EIO"), ret |-> -1, size |-> 0]
    ELSE [w |-> Logged(w, Call("fstat", fd, 0, 0, 0, TRUE)), ret |-> 0,
          size |-> FileLen(w.fds[fd].file)]

\* mmap(2), MAP_SHARED, address chosen by the OS: len is a size_t, off an off_t.
\* EINVAL for a zero length or a negative or unaligned offset, EBADF for a
\* descriptor that is not open, ENOMEM when no region of that size is free.
MmapErrno(w, len, fd, off, fault) ==
    IF len = 0 THEN "EINVAL"
    ELSE IF ~(fd \in Fds /\ w.fds[fd].open) THEN "EBADF"
    ELSE IF off < 0 \/ off % PageSize # 0 THEN "EINVAL"
    ELSE IF fault = "mmap" \/ len > SlotSize \/ FreeSlots(w) = {} THEN "ENOMEM"
    ELSE "0"

OsMmap(w, len, fd, off, fault) ==
    LET e == MmapErrno(w, len, fd, off, fault) IN
    IF e # "0"
    THEN [w |-> Failed(w, Call("mmap", fd, 0, len, off, FALSE), e), ret |-> -1]
    ELSE LET s == Min(FreeSlots(w)) IN
         [w |-> [Logged(w, Call("mmap", fd, SlotBase(s), len, off, TRUE))
                    EXCEPT !.maps[s] = [live |-> TRUE, file |-> w.fds[fd].file, fd |-> fd,
                                        off |-> off, len |-> len, viaPath |-> FALSE]],
          ret |-> SlotBase(s)]

\* the live mapping that starts at addr and spans the pages of len bytes
SlotAt(w, addr, len) ==
    {s \in Slots : /\ w.maps[s].live
                   /\ SlotBase(s) = addr
                   /\ Pages(w.maps[s].len) = Pages(len)}

\* munmap(2): releases the mapping at [addr, addr+len); a call that names no
\* mapping of the process is logged as not ok
OsMunmap(w, addr, len) ==
    IF SlotAt(w, addr, len) = {}
    THEN Failed(w, Call("munmap", invalid_handle, addr, len, 0, FALSE), "EINVAL")
    ELSE LET s == Min(SlotAt(w, addr, len)) IN
         [Logged(w, Call("munmap", invalid_handle, addr, len, 0, TRUE))
            EXCEPT !.maps[s] = FreeSlot]

\* msync(2) with MS_SYNC: ENOMEM when the range is not mapped, EIO when the
\* write-back fails
OsMsync(w, addr, len, fault) ==
    IF SlotAt(w, addr, len) = {}
    THEN [w |-> Failed(w, Call("msync", invalid_handle, addr, len, 0, FALSE), "ENOMEM"),
          ret |-> -1]
    ELSE IF fault
    THEN [w |-> Failed(w, Call("msync", invalid_handle, addr, len, 0, FALSE), "EIO"),
          ret |-> -1]
    ELSE [w |-> Logged(w, Call("msync", invalid_handle, addr, len, 0, TRUE)), ret |-> 0]

\* what a load from address addr yields: the file's byte behind the mapping
\* that covers addr, or a fault
MemByte(w, addr) ==
    LET hit == {s \in Slots : /\ w.maps[s].live
                              /\ SlotBase(s) <= addr
                              /\ addr < SlotBase(s) + Pages(w.maps[s].len) * PageSize}
    IN IF hit = {} THEN [fault |-> "SIGSEGV", byte |-> 0]
       ELSE LET s == Min(hit)
                p == w.maps[s].off + (addr - SlotBase(s))
            IN IF p < FileLen(w.maps[s].file)
               THEN [fault |-> "none", byte |-> FileByte(w.maps[s].file, p)]
               ELSE IF p < Pages(FileLen(w.maps[s].file)) * PageSize
               THEN [fault |-> "none", byte |-> 0]
               ELSE [fault |-> "SIGBUS", byte |-> 0]

\* ------------------------------------------------ detail:: helpers
last_error(w) == SysError(w.errno)

\* The std::error_code& parameter of a function is its last parameter here,
\* holding the value on entry; the value on return is the error field of the
\* result.

\* error.clear()
Clear(error) == OK

open_file(w, path, error) ==
    LET e0 == Clear(error) IN
    IF path = ""
    THEN [w |-> w, handle |-> invalid_handle, error |-> invalid_argument]
    ELSE LET r == OsOpen(w, path, "lib") IN
         IF r.ret = invalid_handle
         THEN [w |-> r.w, handle |-> invalid_handle, error |-> last_error(r.w)]
         ELSE [w |-> r.w, handle |-> r.ret, error |-> e0]

query_file_size(w, handle, fault, error) ==
    LET e0 == Clear(error)
        r == OsFstat(w, handle, fault)
    IN IF r.ret = -1
       THEN [w |-> r.w, size |-> 0, error |-> last_error(r.w)]
       ELSE [w |-> r.w, size |-> U(r.size), error |-> e0]

EmptyCtx == [data |-> nullptr, length |-> 0, mapped_length |-> 0]

\* memory_map's arithmetic, on int64_t
AlignedOffset(offset) == S(make_offset_page_aligned(U(offset)))

\* mutant: the bytes between the aligned offset and the offset are not mapped
LengthToMap_NoPadding(offset, aligned_offset, len) == S(len)

LengthToMap(offset, aligned_offset, len) == S(offset - aligned_offset + len)

\* mutant: the pointer is the start of the OS mapping
CtxData_NoAdjust(mapping_start, offset, aligned_offset) == mapping_start

CtxData(mapping_start, offset, aligned_offset) == mapping_start + offset - aligned_offset

memory_map(w, fh, offset, len, fault, error) ==
    LET aligned_offset == AlignedOffset(offset)
        length_to_map == LengthToMap(offset, aligned_offset, len)
        r == OsMmap(w, U(length_to_map), fh, aligned_offset, fault)
    IN IF r.ret = -1
       THEN [w |-> r.w, ctx |-> EmptyCtx, error |-> last_error(r.w)]
       ELSE [w |-> r.w,
             ctx |-> [data |-> CtxData(r.ret, offset, aligned_offset),
                      length |-> len,
                      mapped_length |-> length_to_map],
             error |-> error]

\* ------------------------------------------- detail, Windows backend
\* CreateFileMapping: a mapping-object handle on the file behind fh
OsCreateFileMapping(w, fh, max_file_size, fault) ==
    LET c == Call("CreateFileMapping", fh, 0, max_file_size, 0, FALSE) IN
    IF ~(fh \in Fds /\ w.fds[fh].open)
    THEN [w |-> Failed(w, c, "ERROR_INVALID_HANDLE"), ret |-> invalid_handle]
    ELSE IF fault = "create" \/ FreeFds(w) = {}
    THEN [w |-> Failed(w, c, "ERROR_NOT_ENOUGH_MEMORY"), ret |-> invalid_handle]
    ELSE LET h == Min(FreeFds(w)) IN
         [w |-> [Logged(w, [c EXCEPT !.ok = TRUE])
                    EXCEPT !.fds[h] = [open |-> TRUE, file |-> w.fds[fh].file,
                                       by |-> "mapping"]],
          ret |-> h]

\* MapViewOfFile: a view of len bytes of the mapping object (to its end if
\* len is 0) at an offset that is a multiple of the allocation granularity
OsMapViewOfFile(w, mh, off, len, fault) ==
    LET c == Call("MapViewOfFile", mh, 0, len, off, FALSE)
        n == IF len = 0 THEN FileLen(w.fds[mh].file) - off ELSE len
    IN IF off % PageSize # 0
       THEN [w |-> Failed(w, c, "ERROR_MAPPED_ALIGNMENT"), ret |-> nullptr]
       ELSE IF n <= 0
       THEN [w |-> Failed(w, c, "ERROR_INVALID_PARAMETER"), ret |-> nullptr]
       ELSE IF fault = "view" \/ n > SlotSize \/ FreeSlots(w) = {}
       THEN [w |-> Failed(w, c, "ERROR_NOT_ENOUGH_MEMORY"), ret |-> nullptr]
       ELSE LET s == Min(FreeSlots(w)) IN
            [w |-> [Logged(w, [c EXCEPT !.ok = TRUE, !.addr = SlotBase(s)])
                       EXCEPT !.maps[s] = [live |-> TRUE, file |-> w.fds[mh].file, fd |-> mh,
                                           off |-> off, len |-> n, viaPath |-> FALSE]],
             ret |-> SlotBase(s)]

\* CloseHandle: the handle is closed; a call that succeeds may leave the
\* thread's last-error value as it was or overwrite it
OsCloseHandle(w, h) ==
    IF h \in Fds /\ w.fds[h].open
    THEN LET w1 == [Logged(w, Call("CloseHandle", h, 0, 0, 0, TRUE))
                       EXCEPT !.fds[h] = ClosedFd]
         IN {w1, [w1 EXCEPT !.errno = "ERROR_SUCCESS"]}
    ELSE {Failed(w, Call("CloseHandle", h, 0, 0, 0, FALSE), "ERROR_INVALID_HANDLE")}

\* UnmapViewOfFile
OsUnmapViewOfFile(w, addr) ==
    LET hit == {s \in Slots : w.maps[s].live /\ SlotBase(s) = addr} IN
    IF hit = {}
    THEN Failed(w, Call("UnmapViewOfFile", invalid_handle, addr, 0, 0, FALSE),
                "ERROR_INVALID_ADDRESS")
    ELSE [Logged(w, Call("UnmapViewOfFile", invalid_handle, addr, 0, 0, TRUE))
             EXCEPT !.maps[Min(hit)] = FreeSlot]

\* detail::memory_map, Windows branch: the possible outcomes (mh is the
\* context's file_mapping_handle)
memory_map_win(w, fh, offset, len, fault, error) ==
    LET aligned_offset == AlignedOffset(offset)
        length_to_map == LengthToMap(offset, aligned_offset, len)
        c == OsCreateFileMapping(w, fh, U(offset + len), fault)
    IN IF c.ret = invalid_handle
       THEN {[w |-> c.w, ctx |-> EmptyCtx, mh |-> invalid_handle, error |-> last_error(c.w)]}
       ELSE LET v == OsMapViewOfFile(c.w, c.ret, aligned_offset, U(length_to_map), fault) IN
            IF v.ret = nullptr
            THEN {[w |-> w2, ctx |-> EmptyCtx, mh |-> invalid_handle,
                   error |-> last_error(w2)] : w2 \in OsCloseHandle(v.w, c.ret)}
            ELSE {[w |-> v.w,
                   ctx |-> [data |-> CtxData(v.ret, offset, aligned_offset),
                            length |-> len,
                            mapped_length |-> length_to_map],
                   mh |-> c.ret,
                   error |-> error]}

\* the release of a view and of its mapping object, as unmap() does it
release_view_win(w, addr, mh) ==
    OsCloseHandle(OsUnmapViewOfFile(w, addr), mh)

\* ------------------------------------------------ basic_mmap handlers
\* mutant: only the handle is reset
ResetFields_HandleOnly(obj) == [obj EXCEPT !.file_handle_ = invalid_handle]

\* unmap()'s reset of the members
ResetFields(obj) ==
    [obj EXCEPT !.data_ = nullptr,
                !.length_ = 0,
                !.mapped_length_ = 0,
                !.file_handle_ = invalid_handle]

\* mutant: the OS mapping is not released
ReleaseMapping_Never(w, obj) == w

\* unmap()'s release of the OS resources of an open object
ReleaseMapping(w, obj) ==
    IF obj.data_ # nullptr
    THEN OsMunmap(w, get_mapping_start(obj), obj.mapped_length_)
    ELSE w

\* mutant: an owned handle is never closed
CloseIfInternal_Never(w, obj) == w

CloseIfInternal(w, obj) ==
    IF obj.is_handle_internal_ THEN OsClose(w, obj.file_handle_) ELSE w

\* mutant: no early return for an object that is not open
unmap_NoGuard(w, o) ==
    LET obj == w.objs[o] IN
    [CloseIfInternal(ReleaseMapping(w, obj), obj) EXCEPT !.objs[o] = ResetFields(obj)]

unmap(w, o) ==
    LET obj == w.objs[o] IN
    IF ~is_open(obj) THEN w
    ELSE [CloseIfInternal(ReleaseMapping(w, obj), obj) EXCEPT !.objs[o] = ResetFields(obj)]

\* mutant: no range check
BoundsOk_Always(offset, len, file_size) == TRUE

\* map(handle)'s range check: true when the request is let through
BoundsOk(offset, len, file_size) == ~(U(offset + len) > file_size)

\* mutant: the sentinel stands for the whole file, whatever the offset
EffectiveLength_WholeFile(offset, len, file_size) ==
    IF len = map_entire_file THEN file_size ELSE len

\* the length handed to memory_map
EffectiveLength(offset, len, file_size) ==
    IF len = map_entire_file THEN U(file_size - offset) ELSE len

\* mutant: the ownership flag is left as it was
Adopt_KeepFlag(obj, handle, ctx) ==
    [obj EXCEPT !.file_handle_ = handle,
                !.data_ = ctx.data,
                !.length_ = U(ctx.length),
                !.mapped_length_ = U(ctx.mapped_length)]

\* the members map(handle) stores
Adopt(obj, handle, ctx) ==
    [obj EXCEPT !.file_handle_ = handle,
                !.is_handle_internal_ = FALSE,
                !.data_ = ctx.data,
                !.length_ = U(ctx.length),
                !.mapped_length_ = U(ctx.mapped_length)]

\* mutant: the old mapping is released before the outcome is looked at
OnMapped_UnmapFirst(w, o, handle, ctx, error) ==
    LET w1 == unmap(w, o) IN
    IF error = OK
    THEN [w1 EXCEPT !.objs[o] = Adopt(w1.objs[o], handle, ctx)]
    ELSE w1

\* mutant: the new state is stored over the old one, which is never released
OnMapped_NoUnmap(w, o, handle, ctx, error) ==
    IF error = OK
    THEN [w EXCEPT !.objs[o] = Adopt(w.objs[o], handle, ctx)]
    ELSE w

\* map(handle) after memory_map returned
OnMapped(w, o, handle, ctx, error) ==
    IF error = OK
    THEN LET w1 == unmap(w, o) IN [w1 EXCEPT !.objs[o] = Adopt(w1.objs[o], handle, ctx)]
    ELSE w

map_handle(w, o, handle, offset, len, fault, error) ==
    LET e0 == Clear(error) IN
    IF handle = invalid_handle
    THEN [w |-> w, error |-> bad_file_descriptor]
    ELSE LET q == query_file_size(w, handle, fault, e0) IN
         IF q.error # OK
         THEN [w |-> q.w, error |-> q.error]
         ELSE IF ~BoundsOk(offset, len, q.size)
         THEN [w |-> q.w, error |-> invalid_argument]
         ELSE LET m == memory_map(q.w, handle, S(offset),
                                  S(EffectiveLength(offset, len, q.size)), fault, q.error)
              IN [w |-> OnMapped(m.w, o, handle, m.ctx, m.error), error |-> m.error]

\* map(path) after the handle overload returned: the ownership flag, and (for
\* the properties only) the note that this OS mapping came from a path
OnPathMapped(w, o, error) ==
    IF error = OK
    THEN LET obj == [w.objs[o] EXCEPT !.is_handle_internal_ = TRUE]
             mine == SlotAt(w, get_mapping_start(obj), obj.mapped_length_)
         IN [w EXCEPT !.objs[o] = obj,
                      !.maps = [s \in Slots |->
                                  IF s \in mine THEN [w.maps[s] EXCEPT !.viaPath = TRUE]
                                  ELSE w.maps[s]]]
    ELSE w

map_path(w, o, path, offset, len, fault, error) ==
    LET e0 == Clear(error) IN
    IF path = ""
    THEN [w |-> w, error |-> invalid_argument]
    ELSE LET f == open_file(w, path, e0) IN
         IF f.error # OK
         THEN [w |-> f.w, error |-> f.error]
         ELSE LET m == map_handle(f.w, o, f.handle, offset, len, fault, f.error)
              IN [w |-> OnPathMapped(m.w, o, m.error), error |-> m.error]

\* the const char* overload: a null pointer is refused before a path is built
NullPath == "<nullptr>"
\* mutant: a null pointer ends the call without the error being set
map_cstr_NullKeepsError(w, o, path, offset, len, fault, error) ==
    IF path = NullPath
    THEN [w |-> w, error |-> error]
    ELSE map_path(w, o, path, offset, len, fault, error)

map_cstr(w, o, path, offset, len, fault, error) ==
    IF path = NullPath
    THEN [w |-> w, error |-> invalid_argument]
    ELSE map_path(w, o, path, offset, len, fault, error)

\* mutant: the flush starts at the user's pointer and spans the user's length
sync_FromData(w, o, fault, error) ==
    LET obj == w.objs[o] IN
    IF ~is_open(obj)
    THEN [w |-> w, error |-> bad_file_descriptor]
    ELSE LET r == OsMsync(w, data(obj), obj.length_, fault) IN
         IF r.ret # 0
         THEN [w |-> r.w, error |-> last_error(r.w)]
         ELSE [w |-> r.w, error |-> Clear(error)]

sync(w, o, fault, error) ==
    LET obj == w.objs[o]
        e0 == Clear(error)
    IN IF ~is_open(obj)
       THEN [w |-> w, error |-> bad_file_descriptor]
       ELSE IF data(obj) # nullptr
       THEN LET r == OsMsync(w, get_mapping_start(obj), obj.mapped_length_, fault) IN
            IF r.ret # 0
            THEN [w |-> r.w, error |-> last_error(r.w)]
            ELSE [w |-> r.w, error |-> e0]
       ELSE [w |-> w, error |-> e0]

\* the destructor's flush: a local, default-constructed error_code, dropped
conditional_sync(w, o, md, fault) ==
    IF md = "write" THEN sync(w, o, fault, OK).w ELSE w

\* mutant: a failing flush ends the destructor
destructor_StopOnSyncError(w, o, md, fault) ==
    IF md = "write" /\ sync(w, o, fault, OK).error # OK
    THEN sync(w, o, fault, OK).w
    ELSE unmap(conditional_sync(w, o, md, fault), o)

destructor(w, o, md, fault) == unmap(conditional_sync(w, o, md, fault), o)

\* what the move constructor leaves in its source
MovedFromCtor(obj) ==
    [obj EXCEPT !.data_ = nullptr,
                !.length_ = 0,
                !.mapped_length_ = 0,
                !.file_handle_ = invalid_handle]

\* what move assignment leaves in its source
MovedFromAssign(obj) ==
    [obj EXCEPT !.data_ = nullptr,
                !.length_ = 0,
                !.mapped_length_ = 0,
                !.file_handle_ = invalid_handle,
                !.is_handle_internal_ = FALSE]

\* mutant: the members are copied and the source is left as it was
move_construct_Copy(w, dst, src) == [w EXCEPT !.objs[dst] = w.objs[src]]

move_construct(w, dst, src) ==
    [w EXCEPT !.objs[dst] = w.objs[src], !.objs[src] = MovedFromCtor(w.objs[src])]

\* basic_shared_mmap(mmap_type&&): make_shared move-constructs the object the
\* wrapper points at (dst) from the caller's object (src)
shared_from_mmap(w, dst, src) == move_construct(w, dst, src)

\* mutant: the destination's mapping is overwritten without being released
move_assign_NoUnmap(w, dst, src) ==
    IF dst # src
    THEN [w EXCEPT !.objs[dst] = w.objs[src], !.objs[src] = MovedFromAssign(w.objs[src])]
    ELSE w

move_assign(w, dst, src) ==
    IF dst # src
    THEN LET w1 == unmap(w, dst) IN
         [w1 EXCEPT !.objs[dst] = w1.objs[src], !.objs[src] = MovedFromAssign(w1.objs[src])]
    ELSE w

\* mutant: the ownership flag is not exchanged
swap_SkipFlag(w, a, b) ==
    IF a # b
    THEN [w EXCEPT !.objs[a] = [w.objs[b] EXCEPT !.is_handle_internal_ =
                                                    w.objs[a].is_handle_internal_],
                   !.objs[b] = [w.objs[a] EXCEPT !.is_handle_internal_ =
                                                    w.objs[b].is_handle_internal_]]
    ELSE w

swap(w, a, b) ==
    IF a # b
    THEN [w EXCEPT !.objs[a] = w.objs[b], !.objs[b] = w.objs[a]]
    ELSE w

\* make_mmap: a default-constructed object, mapped, returned
make_mmap(w, o, isPath, path, handle, offset, len, fault, error) ==
    LET w0 == [w EXCEPT !.objs[o] = DefaultObj] IN
    IF isPath
    THEN map_cstr(w0, o, path, U(offset), U(len), fault, error)
    ELSE map_handle(w0, o, handle, U(offset), U(len), fault, error)

\* ------------------------------------------------ comparison operators
\* mutant: equality looks at the sizes alone
op_eq_SizeOnly(a, b) == size(a) = size(b)

op_eq(a, b) == data(a) = data(b) /\ size(a) = size(b)
op_ne(a, b) == ~op_eq(a, b)
op_lt(a, b) == IF data(a) = data(b) THEN size(a) < size(b) ELSE data(a) < data(b)
op_gt(a, b) == IF data(a) = data(b) THEN size(a) > size(b) ELSE data(a) > data(b)
op_le(a, b) == ~op_gt(a, b)
op_ge(a, b) == ~op_lt(a, b)

\* the six results of comparing a with b: ==, !=, <, <=, >, >=
compare(a, b) ==
    <<op_eq(a, b), op_ne(a, b), op_lt(a, b), op_le(a, b), op_gt(a, b), op_ge(a, b)>>

\* ------------------------------------------ basic_shared_mmap handlers
\* These work on the world extended with the heap (alive), the wrappers and
\* the owner counts.
SharedWorld ==
    [objs |-> objs, fds |-> fds, maps |-> maps, calls |-> <<>>, errno |-> "0",
     alive |-> alive, wlive |-> wlive, pimpl |-> pimpl, use_count |-> use_count,
     held |-> held]

\* mutant: every owner that lets go destroys the object
Release_Always(w, o, md, fault) ==
    IF o = NullPtr THEN w
    ELSE LET w1 == destructor(w, o, md, fault) IN
         [w1 EXCEPT !.use_count[o] = w.use_count[o] - 1,
                    !.objs[o] = DefaultObj,
                    !.alive[o] = FALSE]

\* std::shared_ptr letting go of object o: the owner count goes down by one,
\* and the owner that brings it to zero runs ~basic_mmap and frees the object
Release(w, o, md, fault) ==
    IF o = NullPtr THEN w
    ELSE IF w.use_count[o] > 1
    THEN [w EXCEPT !.use_count[o] = @ - 1]
    ELSE LET w1 == destructor(w, o, md, fault) IN
         [w1 EXCEPT !.use_count[o] = 0, !.objs[o] = DefaultObj, !.alive[o] = FALSE]

\* std::shared_ptr taking one more owner of object o
Acquire(w, o) == IF o = NullPtr THEN w ELSE [w EXCEPT !.use_count[o] = @ + 1]

\* the object std::make_shared allocates
FreeObjs(w) == {o \in Objs : ~w.alive[o]}
NewObj(w) == CHOOSE o \in FreeObjs(w) : TRUE

\* a function's local basic_mmap: it exists from its declaration to the
\* function's return
LocalObj == "local"
WithLocal(w) ==
    [w EXCEPT !.objs = [o \in Objs \cup {LocalObj} |->
                          IF o = LocalObj THEN DefaultObj ELSE w.objs[o]]]
WithoutLocal(w) == [w EXCEPT !.objs = [o \in Objs |-> w.objs[o]]]

shared_default_construct(w, x) ==
    [w EXCEPT !.wlive[x] = TRUE, !.pimpl[x] = NullPtr]

\* mutant: the copy points at the object without becoming an owner
shared_copy_construct_NoCount(w, dst, src) ==
    [w EXCEPT !.wlive[dst] = TRUE, !.pimpl[dst] = w.pimpl[src]]

shared_copy_construct(w, dst, src) ==
    [Acquire(w, w.pimpl[src]) EXCEPT !.wlive[dst] = TRUE, !.pimpl[dst] = w.pimpl[src]]

shared_move_construct(w, dst, src) ==
    [w EXCEPT !.wlive[dst] = TRUE, !.pimpl[dst] = w.pimpl[src], !.pimpl[src] = NullPtr]

\* copy assignment of the shared_ptr: the new object gains an owner, then the
\* old one loses one
shared_copy_assign(w, dst, src, md, fault) ==
    LET old == w.pimpl[dst]
        w1 == [Acquire(w, w.pimpl[src]) EXCEPT !.pimpl[dst] = w.pimpl[src]]
    IN Release(w1, old, md, fault)

\* move assignment of the shared_ptr
shared_move_assign(w, dst, src, md, fault) ==
    IF dst = src THEN w
    ELSE LET old == w.pimpl[dst]
             w1 == [w EXCEPT !.pimpl[dst] = w.pimpl[src], !.pimpl[src] = NullPtr]
         IN Release(w1, old, md, fault)

shared_destroy(w, x, md, fault) ==
    Release([w EXCEPT !.wlive[x] = FALSE, !.pimpl[x] = NullPtr], w.pimpl[x], md, fault)

get_shared_ptr(w, x) ==
    IF w.pimpl[x] = NullPtr THEN w
    ELSE [Acquire(w, w.pimpl[x]) EXCEPT !.held[w.pimpl[x]] = @ + 1]

\* the caller lets go of a shared_ptr it got from get_shared_ptr()
drop_shared_ptr(w, o, md, fault) ==
    Release([w EXCEPT !.held[o] = @ - 1], o, md, fault)

\* map_impl with no object behind the wrapper: a local basic_mmap is made and
\* mapped, and moved into a new shared object if that worked
map_impl_new(w, x, isPath, path, handle, offset, len, fault, error, md) ==
    LET r == make_mmap(WithLocal(w), LocalObj, isPath, path, handle, offset, len, fault, error)
    IN IF r.error # OK
       THEN [w |-> WithoutLocal(destructor(r.w, LocalObj, md, FALSE)), error |-> r.error]
       ELSE LET o == NewObj(w)
                w1 == destructor(move_construct(r.w, o, LocalObj), LocalObj, md, FALSE)
            IN [w |-> [WithoutLocal(w1) EXCEPT !.alive[o] = TRUE,
                                               !.use_count[o] = 1,
                                               !.pimpl[x] = o],
                error |-> r.error]

\* mutant: a wrapper that shares its object with others gets an object of its own
map_impl_Detach(w, x, isPath, path, handle, offset, len, fault, error, md) ==
    IF w.pimpl[x] = NullPtr \/ (w.use_count[w.pimpl[x]] > 1 /\ FreeObjs(w) # {})
    THEN LET r == map_impl_new(w, x, isPath, path, handle, offset, len, fault, error, md)
         IN IF r.error = OK /\ w.pimpl[x] # NullPtr
            THEN [w |-> Release(r.w, w.pimpl[x], md, FALSE), error |-> r.error]
            ELSE r
    ELSE IF isPath
    THEN map_path(w, w.pimpl[x], path, offset, len, fault, error)
    ELSE map_handle(w, w.pimpl[x], handle, offset, len, fault, error)

map_impl(w, x, isPath, path, handle, offset, len, fault, error, md) ==
    IF w.pimpl[x] = NullPtr
    THEN map_impl_new(w, x, isPath, path, handle, offset, len, fault, error, md)
    ELSE IF isPath
    THEN map_path(w, w.pimpl[x], path, offset, len, fault, error)
    ELSE map_handle(w, w.pimpl[x], handle, offset, len, fault, error)

\* mutant: unmap also drops the wrapper's reference to the object
shared_unmap_Reset(w, x) ==
    IF w.pimpl[x] = NullPtr THEN w
    ELSE [unmap(w, w.pimpl[x]) EXCEPT !.pimpl[x] = NullPtr,
                                      !.use_count[w.pimpl[x]] = @ - 1]

shared_unmap(w, x) == IF w.pimpl[x] = NullPtr THEN w ELSE unmap(w, w.pimpl[x])

shared_swap(w, x, y) == [w EXCEPT !.pimpl[x] = w.pimpl[y], !.pimpl[y] = w.pimpl[x]]

\* mutant: a wrapper that references nothing clears the caller's error
shared_sync_Clears(w, x, fault, error) ==
    IF w.pimpl[x] = NullPtr
    THEN [w |-> w, error |-> Clear(error)]
    ELSE sync(w, w.pimpl[x], fault, error)

shared_sync(w, x, fault, error) ==
    IF w.pimpl[x] = NullPtr
    THEN [w |-> w, error |-> error]
    ELSE sync(w, w.pimpl[x], fault, error)

\* what an accessor call came to: a returned value (v, and n for a span's
\* size), a failed assertion, or undefined behaviour
Result(q, kind, v, n) == [q |-> q, kind |-> kind, v |-> v, n |-> n]
NoResult == Result("", "", 0, 0)

\* the accessors that test pimpl_ and return a default when it is null, and
\* the ones that assert(pimpl_) and dereference it
DefaultingQueries ==
    {"file_handle", "mapping_handle", "is_open", "is_mapped", "empty", "size", "length",
     "mapped_length", "data const", "as_span const"}
AssertingQueries ==
    {"data", "begin", "begin const", "cbegin", "end", "end const", "cend",
     "rbegin", "rbegin const", "crbegin", "rend", "rend const", "crend",
     "operator[]", "operator[] const", "as_span"}
Queries == DefaultingQueries \cup AssertingQueries

B(b) == IF b THEN 1 ELSE 0

\* what basic_mmap's accessor q returns for the object o
mmap_query(w, o, q) ==
    LET obj == w.objs[o] IN
    IF q \in {"file_handle", "mapping_handle"} THEN {Result(q, "value", file_handle(obj), 0)}
    ELSE IF q \in {"is_open", "is_mapped"} THEN {Result(q, "value", B(is_open(obj)), 0)}
    ELSE IF q = "empty" THEN {Result(q, "value", B(empty(obj)), 0)}
    ELSE IF q \in {"size", "length"} THEN {Result(q, "value", length(obj), 0)}
    ELSE IF q = "mapped_length" THEN {Result(q, "value", mapped_length(obj), 0)}
    ELSE IF q \in {"data", "data const", "begin", "begin const", "cbegin",
                   "rend", "rend const", "crend"}
    THEN {Result(q, "value", data(obj), 0)}
    ELSE IF q \in {"end", "end const", "cend", "rbegin", "rbegin const", "crbegin"}
    THEN {Result(q, "value", data(obj) + length(obj), 0)}
    ELSE IF q \in {"as_span", "as_span const"}
    THEN {Result(q, "value", data(obj), length(obj))}
    ELSE IF length(obj) > 0                       \* operator[](0)
    THEN {Result(q, "value", MemByte(w, data(obj)).byte, 0)}
    ELSE {Result(q, "undefined", 0, 0)}

\* mutant: every accessor tests pimpl_ first
NullQuery_Defaulting(q) ==
    IF q \in {"file_handle", "mapping_handle"} THEN {Result(q, "value", invalid_handle, 0)}
    ELSE IF q = "empty" THEN {Result(q, "value", 1, 0)}
    ELSE {Result(q, "value", 0, 0)}

\* accessor q on a wrapper whose pimpl_ is null: the default, or for the
\* asserting accessors a failed assert(pimpl_) and, where assert is compiled
\* out, a dereference of the null pointer
NullQuery(q) ==
    IF q \in {"file_handle", "mapping_handle"} THEN {Result(q, "value", invalid_handle, 0)}
    ELSE IF q \in {"is_open", "is_mapped"} THEN {Result(q, "value", 0, 0)}
    ELSE IF q = "empty" THEN {Result(q, "value", 1, 0)}
    ELSE IF q \in {"size", "length", "mapped_length"} THEN {Result(q, "value", 0, 0)}
    ELSE IF q = "data const" THEN {Result(q, "value", nullptr, 0)}
    ELSE IF q = "as_span const" THEN {Result(q, "value", nullptr, 0)}
    ELSE {Result(q, "assert", 0, 0), Result(q, "undefined", 0, 0)}

\* the outcomes of accessor q called on wrapper x
shared_query(w, x, q) ==
    IF w.pimpl[x] = NullPtr THEN NullQuery(q) ELSE mmap_query(w, w.pimpl[x], q)

\* ------------------------------------------------------------- inputs
\* The input scopes.  "life": both objects, every lifecycle operation, one
\* unaligned whole-file request.  "map": the object "a" alone with the full
\* range of offsets and lengths, wrap-around operands included.  "shared":
\* the shared wrappers and the objects behind them, mapped by path with two
\* whole-file requests that give mappings of different sizes.  "query": the
\* same wrappers with every accessor of basic_shared_mmap called on them.
\* "win": detail::memory_map of the Windows backend on the caller's handle.
\* "compare": both objects mapped by path, unmapped and compared.  "eof": the
\* object "a" mapped at the start and at the end of files of three lengths.
ObjsIn == IF scope \in {"map", "eof"} THEN {"a"} ELSE Objs
Handles == {invalid_handle} \cup Fds
FarOffset == 2 * FileLen("f")
Offsets == {0, PageSize - 1, PageSize, PageSize + 1, FarOffset}
Lengths == {map_entire_file, 2, Modulus - 2}

\* <<offset, length, injected OS fault>>
MapArgs ==
    IF scope = "life"
    THEN {<<PageSize + 1, map_entire_file, "none">>, <<PageSize + 1, map_entire_file, "mmap">>}
    ELSE IF scope \in {"shared", "query", "compare"}
    THEN {<<0, map_entire_file, "none">>, <<PageSize + 1, map_entire_file, "none">>}
    ELSE {<<offset, len, "none">> : offset \in Offsets, len \in Lengths}
         \cup {<<0, map_entire_file, "stat">>, <<0, map_entire_file, "mmap">>}
NoArgs == {<<0, map_entire_file, "none">>}
\* requests inside the file, with a fault in either step of the mapping
WinArgs ==
    {<<offset, 2, fault>> : offset \in {0, PageSize + 1}, fault \in {"none", "create", "view"}}

Paths ==
    IF scope = "map" THEN {NullPath, "", "missing", "f"}
    ELSE IF scope = "eof" THEN ExistingFiles
    ELSE {"missing", "f"}
\* a zero-length request at the end of the file
EofArgs(path) == {<<FileLen(path), 0, "none">>}
PathArgs(path) ==
    IF scope = "eof" THEN NoArgs \cup EofArgs(path)
    ELSE IF path = "f" THEN MapArgs
    ELSE NoArgs
\* a descriptor that is not open is refused by the file-size query whatever
\* the range: one request inside the file and one past its end
ClosedArgs == NoArgs \cup {<<FarOffset, map_entire_file, "none">>}
HandleArgs(handle) ==
    IF handle = invalid_handle THEN NoArgs
    ELSE IF ~fds[handle].open THEN ClosedArgs
    ELSE MapArgs

\* the record of the operation that led to the current state
Op(name, o, other, path, handle, offset, len, error) ==
    [op |-> name, obj |-> o, other |-> other, path |-> path, handle |-> handle,
     offset |-> offset, len |-> len, error |-> error, errIn |-> OK,
     wr |-> 0, wr2 |-> 0, res |-> NoResult, cmp |-> <<>>]

\* the same, for an operation on the shared wrapper x (and the wrapper y)
WOp(entry, x, y) == [entry EXCEPT !.wr = x, !.wr2 = y]

\* the same, for an operation that was handed a std::error_code& holding errIn
OpIn(entry, errIn) == [entry EXCEPT !.errIn = errIn]

\* what the caller's error_code holds on entry: clear, or the error an earlier
\* call left in it
StaleError == SysError("EINTR")
EntryErrors == {OK, StaleError}
\* outside the "map" scope the map calls are handed a clear error_code
MapEntryErrors == IF scope = "map" THEN EntryErrors ELSE {OK}

NoOp == Op("none", "a", "a", "", invalid_handle, 0, 0, OK)

\* no operation has been observed yet
Running == last.op = "none"

\* the step is either the observed one, logged, or an earlier one, unlogged
Observe(entry, w) ==
    \/ /\ last' = entry
       /\ calls' = w.calls
    \/ /\ last' = NoOp
       /\ calls' = <<>>

SetWorld(w) ==
    /\ objs' = w.objs
    /\ fds' = w.fds
    /\ maps' = w.maps

SetShared(w) ==
    /\ SetWorld(w)
    /\ alive' = w.alive
    /\ wlive' = w.wlive
    /\ pimpl' = w.pimpl
    /\ use_count' = w.use_count
    /\ held' = w.held

\* the static local of page_size() before the first call, and a thread that
\* has not called anything yet
Uninitialized == [state |-> "uninit", value |-> 0]
IdleThread ==
    [pc |-> "idle", fn |-> "", ncalls |-> 0, tmp |-> 0, ret |-> 0, offset |-> 0, aligned |-> 0]

NoWrappers ==
    /\ wlive = [x \in Wrappers |-> FALSE]
    /\ pimpl = [x \in Wrappers |-> NullPtr]
    /\ use_count = [o \in Objs |-> 0]
    /\ held = [o \in Objs |-> 0]

InitPage(g) ==
    /\ granularity = g
    /\ static_page_size = Uninitialized
    /\ queries = 0
    /\ thr = [t \in Threads |-> IdleThread]

InitWith(sc, md, g) ==
    /\ NoWrappers
    /\ InitPage(g)
    /\ objs = [o \in Objs |-> DefaultObj]
    /\ alive = [o \in Objs |-> (sc \in {"life", "compare"} \/ (sc \in {"map", "eof"} /\ o = "a"))]
    /\ fds = [fd \in Fds |-> ClosedFd]
    /\ maps = [s \in Slots |-> FreeSlot]
    /\ calls = <<>>
    /\ last = NoOp
    /\ mode = md
    /\ scope = sc

InitIn(sc, md) == InitWith(sc, md, PageSize)

\* the access mode is a template parameter: one mode for the whole run
Modes == {"read", "write"}

Init == \E md \in Modes : InitIn("life", md)
InitMap == InitIn("map", "write")
\* no wrapper and no object exists yet
InitShared == InitIn("shared", "write")
InitQuery == InitIn("query", "write")
InitCompare == InitIn("compare", "write")
InitWin == InitIn("win", "write")
InitEof == \E md \in Modes : InitIn("eof", md)

\* the page granularity the OS reports: any positive value
Granularities == 1 .. PageSize
\* threads that have not called page_size() yet, and one thread that has not
\* called make_offset_page_aligned() yet
InitPageSize == \E g \in Granularities : InitWith("page", "write", g)
InitAlign == \E g \in Granularities : InitWith("align", "write", g)

\* ------------------------------------------------------------ actions
MapPath(o, path, offset, len, fault, errIn) ==
    /\ Running
    /\ alive[o]
    /\ \E r \in {map_cstr(World, o, path, offset, len, fault, errIn)} :
       /\ SetWorld(r.w)
       /\ Observe(OpIn(Op("map_path", o, o, path, invalid_handle, offset, len, r.error),
                       errIn), r.w)
    /\ UNCHANGED <<alive, mode, scope, sharedVars, pageVars>>

MapHandle(o, handle, offset, len, fault, errIn) ==
    /\ Running
    /\ alive[o]
    /\ \E r \in {map_handle(World, o, handle, offset, len, fault, errIn)} :
       /\ SetWorld(r.w)
       /\ Observe(OpIn(Op("map_handle", o, o, "", handle, offset, len, r.error), errIn), r.w)
    /\ UNCHANGED <<alive, mode, scope, sharedVars, pageVars>>

MakeMmapPath(o, path, offset, len, fault, errIn) ==
    /\ Running
    /\ ~alive[o]
    /\ \E r \in {make_mmap(World, o, TRUE, path, invalid_handle, offset, len, fault, errIn)} :
       /\ SetWorld(r.w)
       /\ Observe(OpIn(Op("make_mmap_path", o, o, path, invalid_handle, offset, len, r.error),
                       errIn), r.w)
    /\ alive' = [alive EXCEPT ![o] = TRUE]
    /\ UNCHANGED <<mode, scope, sharedVars, pageVars>>

MakeMmapHandle(o, handle, offset, len, fault, errIn) ==
    /\ Running
    /\ ~alive[o]
    /\ \E r \in {make_mmap(World, o, FALSE, "", handle, offset, len, fault, errIn)} :
       /\ SetWorld(r.w)
       /\ Observe(OpIn(Op("make_mmap_handle", o, o, "", handle, offset, len, r.error),
                       errIn), r.w)
    /\ alive' = [alive EXCEPT ![o] = TRUE]
    /\ UNCHANGED <<mode, scope, sharedVars, pageVars>>

Unmap(o) ==
    /\ Running
    /\ alive[o]
    /\ \E w \in {unmap(World, o)} :
       /\ SetWorld(w)
       /\ Observe(Op("unmap", o, o, "", invalid_handle, 0, 0, OK), w)
    /\ UNCHANGED <<alive, mode, scope, sharedVars, pageVars>>

Sync(o, fault, errIn) ==
    /\ Running
    /\ alive[o]
    /\ mode = "write"
    /\ \E r \in {sync(World, o, fault, errIn)} :
       /\ SetWorld(r.w)
       /\ Observe(OpIn(Op("sync", o, o, "", invalid_handle, 0, 0, r.error), errIn), r.w)
    /\ UNCHANGED <<alive, mode, scope, sharedVars, pageVars>>

MoveConstruct(dst, src) ==
    /\ Running
    /\ ~alive[dst]
    /\ alive[src]
    /\ \E w \in {move_construct(World, dst, src)} :
       /\ SetWorld(w)
       /\ Observe(Op("move_construct", dst, src, "", invalid_handle, 0, 0, OK), w)
    /\ alive' = [alive EXCEPT ![dst] = TRUE]
    /\ UNCHANGED <<mode, scope, sharedVars, pageVars>>

\* a shared wrapper constructed from a mapping object; dst is the object
\* the new wrapper points at
SharedFromMmap(dst, src) ==
    /\ Running
    /\ ~alive[dst]
    /\ alive[src]
    /\ \E w \in {shared_from_mmap(World, dst, src)} :
       /\ SetWorld(w)
       /\ Observe(Op("shared_from_mmap", dst, src, "", invalid_handle, 0, 0, OK), w)
    /\ alive' = [alive EXCEPT ![dst] = TRUE]
    /\ UNCHANGED <<mode, scope, sharedVars, pageVars>>

MoveAssign(dst, src) ==
    /\ Running
    /\ alive[dst]
    /\ alive[src]
    /\ \E w \in {move_assign(World, dst, src)} :
       /\ SetWorld(w)
       /\ Observe(Op("move_assign", dst, src, "", invalid_handle, 0, 0, OK), w)
    /\ UNCHANGED <<alive, mode, scope, sharedVars, pageVars>>

Swap(a, b) ==
    /\ Running
    /\ alive[a]
    /\ alive[b]
    /\ \E w \in {swap(World, a, b)} :
       /\ SetWorld(w)
       /\ Observe(Op("swap", a, b, "", invalid_handle, 0, 0, OK), w)
    /\ UNCHANGED <<alive, mode, scope, sharedVars, pageVars>>

\* the destructor; the storage of a destroyed object is not looked at again
Destroy(o, fault) ==
    /\ Running
    /\ alive[o]
    /\ \E w \in {destructor(World, o, mode, fault)} :
       /\ SetWorld([w EXCEPT !.objs[o] = DefaultObj])
       /\ Observe(Op("destroy", o, o, "", invalid_handle, 0, 0, OK), w)
    /\ alive' = [alive EXCEPT ![o] = FALSE]
    /\ UNCHANGED <<mode, scope, sharedVars, pageVars>>

Construct(o) ==
    /\ Running
    /\ ~alive[o]
    /\ SetWorld([World EXCEPT !.objs[o] = DefaultObj])
    /\ Observe(Op("construct", o, o, "", invalid_handle, 0, 0, OK), World)
    /\ alive' = [alive EXCEPT ![o] = TRUE]
    /\ UNCHANGED <<mode, scope, sharedVars, pageVars>>

\* the caller's own descriptor on the file, opened and closed by the caller
UserOpen ==
    /\ Running
    /\ \A fd \in Fds : fds[fd].by # "user"
    /\ FreeFds(World) # {}
    /\ SetWorld(OsOpen(World, "f", "user").w)
    /\ Observe(Op("user_open", "a", "a", "f", invalid_handle, 0, 0, OK), World)
    /\ UNCHANGED <<alive, mode, scope, sharedVars, pageVars>>

UserClose(fd) ==
    /\ Running
    /\ fds[fd].open
    /\ fds[fd].by = "user"
    /\ SetWorld(OsClose(World, fd))
    /\ Observe(Op("user_close", "a", "a", "", fd, 0, 0, OK), World)
    /\ UNCHANGED <<alive, mode, scope, sharedVars, pageVars>>

\* detail::memory_map called on a handle, Windows backend
WinMemoryMap(handle, offset, len, fault, errIn) ==
    /\ Running
    /\ \E r \in memory_map_win(World, handle, offset, len, fault, errIn) :
       /\ SetWorld(r.w)
       /\ Observe(OpIn(Op("memory_map_win", "a", "a", "", handle, offset, len, r.error),
                       errIn), r.w)
    /\ UNCHANGED <<alive, mode, scope, sharedVars, pageVars>>

\* the holder of a mapping context releases the view and the mapping object
WinRelease(s) ==
    /\ Running
    /\ maps[s].live
    /\ \E w \in release_view_win(World, SlotBase(s), maps[s].fd) :
       /\ SetWorld(w)
       /\ Observe(Op("release_view_win", "a", "a", "", maps[s].fd, 0, 0, OK), w)
    /\ UNCHANGED <<alive, mode, scope, sharedVars, pageVars>>

Compare(a, b) ==
    /\ Running
    /\ alive[a]
    /\ alive[b]
    /\ last' = [Op("compare", a, b, "", invalid_handle, 0, 0, OK)
                   EXCEPT !.cmp = compare(objs[a], objs[b])]
    /\ calls' = <<>>
    /\ UNCHANGED <<objs, alive, fds, maps, mode, scope, sharedVars, pageVars>>

\* ------------------------------------------------- page.hpp, by thread
ThreadsIn == IF scope = "align" THEN {1} ELSE Threads
SetThread(t, rec) == thr' = [thr EXCEPT ![t] = rec]

\* a thread calls page_size()
PageCall(t) ==
    /\ scope = "page"
    /\ thr[t].pc = "idle"
    /\ thr[t].ncalls < MaxCalls
    /\ SetThread(t, [thr[t] EXCEPT !.pc = "enter", !.fn = "page_size"])
    /\ UNCHANGED <<objs, alive, fds, maps, calls, last, mode, scope, sharedVars,
                   granularity, static_page_size, queries>>

\* a thread calls make_offset_page_aligned(offset), which calls page_size()
AlignCall(t, offset) ==
    /\ scope = "align"
    /\ thr[t].pc = "idle"
    /\ thr[t].ncalls < MaxCalls
    /\ SetThread(t, [thr[t] EXCEPT !.pc = "enter", !.fn = "align", !.offset = offset,
                                   !.aligned = 0])
    /\ UNCHANGED <<objs, alive, fds, maps, calls, last, mode, scope, sharedVars,
                   granularity, static_page_size, queries>>

\* the thread reaches the declaration of the static local
PageEnter(t) ==
    /\ thr[t].pc = "enter"
    /\ \E d \in {guard_acquire(static_page_size)} :
       /\ d # "wait"
       /\ SetThread(t, [thr[t] EXCEPT !.pc = d])
       /\ static_page_size' = IF d = "init" THEN [state |-> "running", value |-> 0]
                                             ELSE static_page_size
    /\ UNCHANGED <<objs, alive, fds, maps, calls, last, mode, scope, sharedVars,
                   granularity, queries>>

\* the initializer's sysconf(_SC_PAGE_SIZE)
PageQuery(t) ==
    /\ thr[t].pc = "init"
    /\ SetThread(t, [thr[t] EXCEPT !.pc = "store", !.tmp = granularity])
    /\ queries' = queries + 1
    /\ UNCHANGED <<objs, alive, fds, maps, calls, last, mode, scope, sharedVars,
                   granularity, static_page_size>>

\* the static local receives the initializer's value
PageStore(t) ==
    /\ thr[t].pc = "store"
    /\ static_page_size' = [state |-> "done", value |-> thr[t].tmp]
    /\ SetThread(t, [thr[t] EXCEPT !.pc = "read"])
    /\ UNCHANGED <<objs, alive, fds, maps, calls, last, mode, scope, sharedVars,
                   granularity, queries>>

\* return page_size;
PageReturn(t) ==
    /\ thr[t].pc = "read"
    /\ SetThread(t, IF thr[t].fn = "page_size"
                    THEN [thr[t] EXCEPT !.pc = "idle", !.ret = static_page_size.value,
                                        !.ncalls = @ + 1]
                    ELSE [thr[t] EXCEPT !.pc = "align", !.ret = static_page_size.value])
    /\ UNCHANGED <<objs, alive, fds, maps, calls, last, mode, scope, sharedVars,
                   granularity, static_page_size, queries>>

\* return offset / page_size_ * page_size_;
AlignReturn(t) ==
    /\ thr[t].pc = "align"
    /\ SetThread(t, [thr[t] EXCEPT !.pc = "idle", !.ncalls = @ + 1,
                                   !.aligned = align_to(thr[t].offset, thr[t].ret)])
    /\ UNCHANGED <<objs, alive, fds, maps, calls, last, mode, scope, sharedVars,
                   granularity, static_page_size, queries>>

\* ------------------------------------------- actions on shared wrappers
SharedOp(name, x, y) == WOp(Op(name, "a", "a", "", invalid_handle, 0, 0, OK), x, y)

SharedConstruct(x) ==
    /\ Running
    /\ ~wlive[x]
    /\ \E w \in {shared_default_construct(SharedWorld, x)} :
       /\ SetShared(w)
       /\ Observe(SharedOp("shared_construct", x, x), w)
    /\ UNCHANGED <<mode, scope, pageVars>>

\* make_shared needs a free object when the wrapper references nothing
SharedMapPath(x, path, offset, len, fault, errIn) ==
    /\ Running
    /\ wlive[x]
    /\ pimpl[x] = NullPtr => FreeObjs(SharedWorld) # {}
    /\ \E r \in {map_impl(SharedWorld, x, TRUE, path, invalid_handle, offset, len, fault,
                           errIn, mode)} :
       /\ SetShared(r.w)
       /\ Observe(OpIn(WOp(Op("shared_map_path", "a", "a", path, invalid_handle, offset, len,
                              r.error), x, x), errIn), r.w)
    /\ UNCHANGED <<mode, scope, pageVars>>

SharedCopy(dst, src) ==
    /\ Running
    /\ ~wlive[dst]
    /\ wlive[src]
    /\ \E w \in {shared_copy_construct(SharedWorld, dst, src)} :
       /\ SetShared(w)
       /\ Observe(SharedOp("shared_copy", dst, src), w)
    /\ UNCHANGED <<mode, scope, pageVars>>

SharedMove(dst, src) ==
    /\ Running
    /\ ~wlive[dst]
    /\ wlive[src]
    /\ \E w \in {shared_move_construct(SharedWorld, dst, src)} :
       /\ SetShared(w)
       /\ Observe(SharedOp("shared_move", dst, src), w)
    /\ UNCHANGED <<mode, scope, pageVars>>

SharedCopyAssign(dst, src) ==
    /\ Running
    /\ wlive[dst]
    /\ wlive[src]
    /\ \E w \in {shared_copy_assign(SharedWorld, dst, src, mode, FALSE)} :
       /\ SetShared(w)
       /\ Observe(SharedOp("shared_copy_assign", dst, src), w)
    /\ UNCHANGED <<mode, scope, pageVars>>

SharedMoveAssign(dst, src) ==
    /\ Running
    /\ wlive[dst]
    /\ wlive[src]
    /\ \E w \in {shared_move_assign(SharedWorld, dst, src, mode, FALSE)} :
       /\ SetShared(w)
       /\ Observe(SharedOp("shared_move_assign", dst, src), w)
    /\ UNCHANGED <<mode, scope, pageVars>>

SharedDestroy(x) ==
    /\ Running
    /\ wlive[x]
    /\ \E w \in {shared_destroy(SharedWorld, x, mode, FALSE)} :
       /\ SetShared(w)
       /\ Observe(SharedOp("shared_destroy", x, x), w)
    /\ UNCHANGED <<mode, scope, pageVars>>

SharedUnmap(x) ==
    /\ Running
    /\ wlive[x]
    /\ \E w \in {shared_unmap(SharedWorld, x)} :
       /\ SetShared(w)
       /\ Observe(SharedOp("shared_unmap", x, x), w)
    /\ UNCHANGED <<mode, scope, pageVars>>

SharedSync(x, fault, errIn) ==
    /\ Running
    /\ wlive[x]
    /\ \E r \in {shared_sync(SharedWorld, x, fault, errIn)} :
       /\ SetShared(r.w)
       /\ Observe(OpIn([SharedOp("shared_sync", x, x) EXCEPT !.error = r.error], errIn), r.w)
    /\ UNCHANGED <<mode, scope, pageVars>>

SharedSwap(x, y) ==
    /\ Running
    /\ wlive[x]
    /\ wlive[y]
    /\ \E w \in {shared_swap(SharedWorld, x, y)} :
       /\ SetShared(w)
       /\ Observe(SharedOp("shared_swap", x, y), w)
    /\ UNCHANGED <<mode, scope, pageVars>>

\* the caller keeps at most MaxHeld pointers to an object
GetSharedPtr(x) ==
    /\ Running
    /\ wlive[x]
    /\ pimpl[x] # NullPtr => held[pimpl[x]] < MaxHeld
    /\ \E w \in {get_shared_ptr(SharedWorld, x)} :
       /\ SetShared(w)
       /\ Observe(SharedOp("get_shared_ptr", x, x), w)
    /\ UNCHANGED <<mode, scope, pageVars>>

SharedQuery(x, q) ==
    /\ Running
    /\ wlive[x]
    /\ \E r \in shared_query(SharedWorld, x, q) :
          last' = [SharedOp("shared_query", x, x) EXCEPT !.res = r]
    /\ calls' = <<>>
    /\ UNCHANGED <<objs, alive, fds, maps, mode, scope, sharedVars, pageVars>>

DropSharedPtr(o) ==
    /\ Running
    /\ held[o] > 0
    /\ \E w \in {drop_shared_ptr(SharedWorld, o, mode, FALSE)} :
       /\ SetShared(w)
       /\ Observe([SharedOp("drop_shared_ptr", 0, 0) EXCEPT !.obj = o], w)
    /\ UNCHANGED <<mode, scope, pageVars>>

\* map, unmap, sync, destruction and construction of one object, and the
\* caller's descriptor
NextObject ==
    \/ \E o \in ObjsIn, path \in Paths, errIn \in MapEntryErrors : \E a \in PathArgs(path) :
          MapPath(o, path, a[1], a[2], a[3], errIn)
    \/ \E o \in ObjsIn, handle \in Handles, errIn \in MapEntryErrors :
          \E a \in HandleArgs(handle) : MapHandle(o, handle, a[1], a[2], a[3], errIn)
    \/ \E o \in ObjsIn : Unmap(o)
    \/ \E o \in ObjsIn, fault \in BOOLEAN, errIn \in EntryErrors : Sync(o, fault, errIn)
    \/ \E o \in ObjsIn, fault \in BOOLEAN : Destroy(o, fault)
    \/ \E o \in ObjsIn : Construct(o)
    \/ UserOpen
    \/ \E fd \in Fds : UserClose(fd)

\* the factories
NextFactory ==
    \/ \E o \in ObjsIn, path \in Paths, errIn \in MapEntryErrors : \E a \in PathArgs(path) :
          MakeMmapPath(o, path, a[1], a[2], a[3], errIn)
    \/ \E o \in ObjsIn, handle \in Handles, errIn \in MapEntryErrors :
          \E a \in HandleArgs(handle) : MakeMmapHandle(o, handle, a[1], a[2], a[3], errIn)

\* the operations between two objects
NextTwo ==
    \/ \E dst \in ObjsIn, src \in ObjsIn : MoveConstruct(dst, src)
    \/ \E dst \in ObjsIn, src \in ObjsIn : SharedFromMmap(dst, src)
    \/ \E dst \in ObjsIn, src \in ObjsIn : MoveAssign(dst, src)
    \/ \E a \in ObjsIn, b \in ObjsIn : Swap(a, b)

Next == NextObject \/ NextTwo
NextMap == NextObject \/ NextFactory

\* the shared wrappers mapped by path, and the pointers the caller takes
\* from them
NextShared ==
    \/ \E x \in Wrappers : SharedConstruct(x)
    \/ \E x \in Wrappers, path \in Paths, errIn \in MapEntryErrors : \E a \in PathArgs(path) :
          SharedMapPath(x, path, a[1], a[2], a[3], errIn)
    \/ \E dst \in Wrappers, src \in Wrappers : SharedCopy(dst, src)
    \/ \E dst \in Wrappers, src \in Wrappers : SharedMove(dst, src)
    \/ \E dst \in Wrappers, src \in Wrappers : SharedCopyAssign(dst, src)
    \/ \E dst \in Wrappers, src \in Wrappers : SharedMoveAssign(dst, src)
    \/ \E x \in Wrappers : SharedDestroy(x)
    \/ \E x \in Wrappers : SharedUnmap(x)
    \/ \E x \in Wrappers, fault \in BOOLEAN, errIn \in EntryErrors : SharedSync(x, fault, errIn)
    \/ \E x \in Wrappers, y \in Wrappers : SharedSwap(x, y)
    \/ \E x \in Wrappers : GetSharedPtr(x)
    \/ \E o \in Objs : DropSharedPtr(o)

\* wrappers that reference nothing, an unmapped object or a mapped one, and
\* the accessors called on them
NextQuery ==
    \/ \E x \in Wrappers : SharedConstruct(x)
    \/ \E x \in Wrappers, path \in Paths, errIn \in MapEntryErrors : \E a \in PathArgs(path) :
          SharedMapPath(x, path, a[1], a[2], a[3], errIn)
    \/ \E dst \in Wrappers, src \in Wrappers : SharedMove(dst, src)
    \/ \E x \in Wrappers : SharedUnmap(x)
    \/ \E x \in Wrappers : SharedDestroy(x)
    \/ \E x \in Wrappers, q \in Queries : SharedQuery(x, q)

\* two objects mapped, unmapped, moved and compared
NextCompare ==
    \/ \E o \in ObjsIn, path \in Paths, errIn \in MapEntryErrors : \E a \in PathArgs(path) :
          MapPath(o, path, a[1], a[2], a[3], errIn)
    \/ \E o \in ObjsIn : Unmap(o)
    \/ \E dst \in ObjsIn, src \in ObjsIn : MoveAssign(dst, src)
    \/ \E a \in ObjsIn, b \in ObjsIn : Compare(a, b)

\* threads calling page_size()
NextPageSize ==
    \/ \E t \in ThreadsIn : PageCall(t)
    \/ \E t \in ThreadsIn : PageEnter(t)
    \/ \E t \in ThreadsIn : PageQuery(t)
    \/ \E t \in ThreadsIn : PageStore(t)
    \/ \E t \in ThreadsIn : PageReturn(t)

\* one thread calling make_offset_page_aligned() with any offset of size_t
NextAlign ==
    \/ \E t \in ThreadsIn, offset \in 0 .. Modulus - 1 : AlignCall(t, offset)
    \/ \E t \in ThreadsIn : PageEnter(t)
    \/ \E t \in ThreadsIn : PageQuery(t)
    \/ \E t \in ThreadsIn : PageStore(t)
    \/ \E t \in ThreadsIn : PageReturn(t)
    \/ \E t \in ThreadsIn : AlignReturn(t)

\* one object mapped by path, unmapped, destroyed and constructed again
NextEof ==
    \/ \E o \in ObjsIn, path \in Paths, errIn \in MapEntryErrors : \E a \in PathArgs(path) :
          MapPath(o, path, a[1], a[2], a[3], errIn)
    \/ \E o \in ObjsIn : Unmap(o)
    \/ \E o \in ObjsIn, fault \in BOOLEAN : Destroy(o, fault)
    \/ \E o \in ObjsIn : Construct(o)

\* the Windows mapping steps on the caller's handle
NextWin ==
    \/ \E handle \in Fds, errIn \in EntryErrors : \E a \in WinArgs :
          WinMemoryMap(handle, a[1], a[2], a[3], errIn)
    \/ \E s \in Slots : WinRelease(s)
    \/ UserOpen
    \/ \E fd \in Fds : UserClose(fd)

Spec == Init /\ [][Next]_vars
SpecWin == InitWin /\ [][NextWin]_vars
SpecEof == InitEof /\ [][NextEof]_vars
SpecPageSize == InitPageSize /\ [][NextPageSize]_vars
SpecAlign == InitAlign /\ [][NextAlign]_vars
SpecCompare == InitCompare /\ [][NextCompare]_vars
SpecQuery == InitQuery /\ [][NextQuery]_vars
SpecShared == InitShared /\ [][NextShared]_vars
SpecMap == InitMap /\ [][NextMap]_vars

\* --------------------------------------------------------- properties
MapOps == {"map_path", "map_handle"}
FactoryOps == {"make_mmap_path", "make_mmap_handle"}
PathOps == {"map_path", "make_mmap_path"}
HandleOps == {"map_handle", "make_mmap_handle"}

CallsOf(cs, name) == {i \in 1 .. Len(cs) : cs[i].call = name}
OkCallsOf(cs, name) == {i \in CallsOf(cs, name) : cs[i].ok}

\* C1: a map call (path or handle overload) that fails on a Mapped object
\* leaves every field of the object as it was, releases no OS mapping and
\* leaves the object's file handle as it was: no munmap, no close is issued.
C1_FailedMapKeepsMapping ==
    [][ (last'.op \in MapOps /\ last'.error # OK /\ is_open(objs[last'.obj]))
        => /\ objs' = objs
           /\ maps' = maps
           /\ fds[file_handle(objs[last'.obj])].open
                 => fds'[file_handle(objs[last'.obj])] = fds[file_handle(objs[last'.obj])]
           /\ CallsOf(calls', "munmap") = {}
           /\ CallsOf(calls', "close") = {} ]_vars

\* a map that failed in the OS mapping call, on an object that is Mapped
C1_Witness ==
    /\ last.op \in MapOps
    /\ last.error # OK
    /\ is_open(objs[last.obj])
    /\ \E i \in CallsOf(calls, "mmap") : ~calls[i].ok

\* the operations of the library (all but the caller's own open and close)
LibraryOps == MapOps \cup FactoryOps
                \cup {"unmap", "sync", "move_construct", "move_assign", "swap", "destroy",
                      "construct", "shared_from_mmap"}

\* a request the interface refuses: no usable path, no usable handle, or a
\* range that ends past the end of the file
BadMapRequest(l) ==
    \/ l.op \in PathOps /\ l.path \in {NullPath, "", "missing"}
    \/ l.op \in HandleOps /\ l.handle = invalid_handle
    \/ l.op \in MapOps \cup FactoryOps /\ l.offset + l.len > FileLen("f")

\* C2: a map attempt on a never-mapped object, or through a factory, with an
\* empty, null or nonexistent path, the invalid handle, or offset + length
\* past the end of the file leaves the error set and the object Unmapped
\* (is_open() false, empty() true, size() 0).
C2_BadRequestLeavesUnmapped ==
    [][ (BadMapRequest(last') /\ (last'.op \in FactoryOps \/ objs[last'.obj] = DefaultObj))
        => /\ last'.error # OK
           /\ ~is_open(objs'[last'.obj])
           /\ empty(objs'[last'.obj])
           /\ size(objs'[last'.obj]) = 0 ]_vars

\* C3: the library closes a descriptor only if the library opened it, each
\* close succeeds, and whenever an OS mapping created by map(path) is released
\* the descriptor opened for it is closed in the same operation.
C3_HandleOwnership ==
    [][ last'.op \in LibraryOps
        => /\ \A i \in CallsOf(calls', "close") :
                 /\ calls'[i].ok
                 /\ fds[calls'[i].fd].open => fds[calls'[i].fd].by = "lib"
           /\ \A s \in Slots :
                 ( /\ maps[s].live
                   /\ maps[s].viaPath
                   /\ \E i \in OkCallsOf(calls', "munmap") : calls'[i].addr = SlotBase(s) )
                 => \E j \in OkCallsOf(calls', "close") : calls'[j].fd = maps[s].fd ]_vars

\* a successful map(path) that replaced a mapping and closed its descriptor,
\* while the caller's own descriptor is open
C3_Witness ==
    /\ last.op = "map_path"
    /\ last.error = OK
    /\ OkCallsOf(calls, "munmap") # {}
    /\ OkCallsOf(calls, "close") # {}
    /\ \E fd \in Fds : fds[fd].open /\ fds[fd].by = "user"

\* C4: after a map(path) that failed, no descriptor that this call opened is
\* still open.
C4_FailedPathMapClosesHandle ==
    (last.op \in PathOps /\ last.error # OK)
        => \A i \in OkCallsOf(calls, "open") : ~fds[calls[i].fd].open

\* C5: after a successful map of a range inside the file, byte i of the
\* mapping is byte offset + i of the file, for every i below size().
C5_RoundTrip ==
    ( /\ last.op \in MapOps \cup FactoryOps
      /\ last.error = OK
      /\ last.offset < FileLen("f")
      /\ last.offset + last.len <= FileLen("f") )
    => \A i \in 0 .. (size(objs[last.obj]) - 1) :
          MemByte(World, data(objs[last.obj]) + i)
             = [fault |-> "none", byte |-> FileByte("f", last.offset + i)]

\* a successful map just above a page boundary with bytes to read
C5_Witness ==
    /\ last.op \in MapOps \cup FactoryOps
    /\ last.error = OK
    /\ last.offset = PageSize + 1
    /\ size(objs[last.obj]) > 1

\* the largest multiple of the page granularity that is <= offset
AlignDown(offset) == CHOOSE m \in 0 .. offset : m % PageSize = 0 /\ offset - m < PageSize

\* C6: after a successful map with offset o, mapped_length() - length() is
\* o - align_down(o), the OS mapping was requested at align_down(o) for
\* (o - align_down(o)) + length() bytes, and data() is its base plus
\* o - align_down(o).
C6_Alignment ==
    (last.op \in MapOps \cup FactoryOps /\ last.error = OK)
    => LET obj == objs[last.obj]
           pad == last.offset - AlignDown(last.offset)
       IN /\ U(mapped_length(obj) - length(obj)) = pad
          /\ \E i \in OkCallsOf(calls, "mmap") :
                /\ calls[i].off = AlignDown(last.offset)
                /\ calls[i].len = U(pad + length(obj))
                /\ data(obj) = calls[i].addr + pad

\* a successful map at an unaligned offset
C6_Witness ==
    /\ last.op \in MapOps \cup FactoryOps
    /\ last.error = OK
    /\ last.offset % PageSize # 0
    /\ mapped_length(objs[last.obj]) > length(objs[last.obj])

\* C7: map(handle, offset, length) whose true sum offset + length is greater
\* than the file's length fails with invalid_argument and issues no mapping
\* call.
C7_OversizeRejected ==
    ( /\ last.op = "map_handle"
      /\ OkCallsOf(calls, "fstat") # {}
      /\ last.offset + last.len > FileLen("f") )
    => /\ last.error = invalid_argument
       /\ CallsOf(calls, "mmap") = {}

\* C8: in every state, a live object whose file handle is the invalid
\* sentinel has a null data pointer and length = mapped_length = 0.
C8_InvalidHandleMeansEmpty ==
    \A o \in Objs :
        (alive[o] /\ file_handle(objs[o]) = invalid_handle)
        => /\ data(objs[o]) = nullptr
           /\ length(objs[o]) = 0
           /\ mapped_length(objs[o]) = 0

\* a move assignment that released the destination's mapping and left the
\* source without a handle
C8_Witness ==
    /\ last.op = "move_assign"
    /\ last.obj # last.other
    /\ OkCallsOf(calls, "munmap") # {}
    /\ is_open(objs[last.obj])
    /\ file_handle(objs[last.other]) = invalid_handle

\* C9: unmap() on an Unmapped object issues no OS call and changes nothing;
\* unmap() on a Mapped object releases the OS mapping with one munmap, closes
\* the file handle once if and only if it is owned, and leaves the object
\* Unmapped, so that a second unmap() right after it is of the first kind.
C9_UnmapIdempotent ==
    [][ last'.op = "unmap"
        => IF ~is_open(objs[last'.obj])
           THEN /\ calls' = <<>>
                /\ objs' = objs
                /\ fds' = fds
                /\ maps' = maps
           ELSE /\ Cardinality(OkCallsOf(calls', "munmap")) = 1
                /\ Cardinality(OkCallsOf(calls', "close"))
                      = (IF objs[last'.obj].is_handle_internal_ THEN 1 ELSE 0)
                /\ Len(calls') = 1 + (IF objs[last'.obj].is_handle_internal_ THEN 1 ELSE 0)
                /\ ~is_open(objs'[last'.obj]) ]_vars

\* unmap() of an object that has been unmapped or moved from before: it holds
\* no handle and its ownership flag is still set
C9_Witness ==
    /\ last.op = "unmap"
    /\ calls = <<>>
    /\ ~is_open(objs[last.obj])
    /\ objs[last.obj].is_handle_internal_

\* C10: after unmap() every field of the object has its default value and
\* is_open() is false.
C10_UnmapResetsAll ==
    last.op = "unmap"
        => /\ objs[last.obj] = DefaultObj
           /\ ~is_open(objs[last.obj])

MoveOps == {"move_construct", "move_assign", "shared_from_mmap"}

\* C11: a move of a Mapped object into another object (move construction,
\* move assignment, construction of a shared wrapper) leaves the source with
\* is_open() false and size() 0 and the destination open with the source's
\* size, data pointer, file handle and ownership flag; the move creates
\* nothing (no open, no mmap) and releases nothing of the moved mapping: the
\* only releases are those of what the destination of an assignment held.
C11_MoveTransfers ==
    [][ (last'.op \in MoveOps /\ last'.obj # last'.other /\ is_open(objs[last'.other]))
        => LET src == objs[last'.other]
               dst == objs[last'.obj]
           IN /\ ~is_open(objs'[last'.other])
              /\ size(objs'[last'.other]) = 0
              /\ is_open(objs'[last'.obj])
              /\ size(objs'[last'.obj]) = size(src)
              /\ data(objs'[last'.obj]) = data(src)
              /\ file_handle(objs'[last'.obj]) = file_handle(src)
              /\ objs'[last'.obj].is_handle_internal_ = src.is_handle_internal_
              /\ CallsOf(calls', "open") = {}
              /\ CallsOf(calls', "mmap") = {}
              /\ last'.op # "move_assign" => calls' = <<>> /\ maps' = maps /\ fds' = fds
              /\ \A i \in CallsOf(calls', "munmap") :
                    calls'[i].addr = get_mapping_start(dst)
              /\ \A i \in CallsOf(calls', "close") :
                    dst.is_handle_internal_ /\ calls'[i].fd = file_handle(dst)
              /\ \A s \in SlotAt(World, get_mapping_start(src), mapped_length(src)) :
                    maps'[s] = maps[s] ]_vars

\* a path-mapped object moved into a new shared wrapper
C11_Witness ==
    /\ last.op = "shared_from_mmap"
    /\ is_open(objs[last.obj])
    /\ objs[last.obj].is_handle_internal_
    /\ size(objs[last.obj]) > 0
    /\ ~is_open(objs[last.other])

\* C12: a = std::move(b) with a and b distinct releases what a held (one
\* munmap of a's whole OS mapping, then one close of a's handle if and only
\* if a owned it; nothing if a was Unmapped), gives a every field b had and
\* leaves b Unmapped; a = std::move(a) changes nothing and releases nothing.
C12_MoveAssignUnmapsFirst ==
    [][ last'.op = "move_assign"
        => LET src == objs[last'.other]
               dst == objs[last'.obj]
               owned == is_open(dst) /\ dst.is_handle_internal_
           IN IF last'.obj = last'.other
              THEN /\ objs' = objs
                   /\ maps' = maps
                   /\ fds' = fds
                   /\ calls' = <<>>
              ELSE /\ objs'[last'.obj] = src
                   /\ ~is_open(objs'[last'.other])
                   /\ data(objs'[last'.other]) = nullptr
                   /\ size(objs'[last'.other]) = 0
                   /\ Len(calls') = (IF is_open(dst) THEN 1 ELSE 0) + (IF owned THEN 1 ELSE 0)
                   /\ is_open(dst)
                         => /\ calls'[1] = Call("munmap", invalid_handle, get_mapping_start(dst),
                                                mapped_length(dst), 0, TRUE)
                            /\ \A s \in SlotAt(World, get_mapping_start(dst), mapped_length(dst)) :
                                  ~maps'[s].live
                   /\ owned => calls'[2] = Call("close", file_handle(dst), 0, 0, 0, TRUE) ]_vars

\* a move assignment over a path-mapped destination: its mapping is released
\* and its handle closed before it takes the source's mapping
C12_Witness ==
    /\ last.op = "move_assign"
    /\ last.obj # last.other
    /\ Len(calls) = 2
    /\ calls[2].call = "close"
    /\ is_open(objs[last.obj])

\* C13: destroying a Mapped object issues, in this order, one msync of its
\* OS mapping if the mode is write (none if it is read), one munmap of the
\* mapping and one close of the handle if it is owned; the munmap and the
\* close are issued and succeed whether or not the msync failed; destroying
\* an Unmapped object issues no call and releases nothing.
C13_DestructorFlushThenUnmap ==
    [][ last'.op = "destroy"
        => LET obj == objs[last'.obj]
               flushes == IF mode = "write" THEN 1 ELSE 0
               closes == IF obj.is_handle_internal_ THEN 1 ELSE 0
           IN IF ~is_open(obj)
              THEN /\ calls' = <<>>
                   /\ maps' = maps
                   /\ fds' = fds
              ELSE /\ Len(calls') = flushes + 1 + closes
                   /\ Cardinality(CallsOf(calls', "msync")) = flushes
                   /\ mode = "write"
                         => /\ calls'[1].call = "msync"
                            /\ calls'[1].addr = get_mapping_start(obj)
                            /\ calls'[1].len = mapped_length(obj)
                   /\ calls'[flushes + 1] = Call("munmap", invalid_handle, get_mapping_start(obj),
                                                 mapped_length(obj), 0, TRUE)
                   /\ obj.is_handle_internal_
                         => calls'[flushes + 2] = Call("close", file_handle(obj), 0, 0, 0, TRUE)
                   /\ \A s \in SlotAt(World, get_mapping_start(obj), mapped_length(obj)) :
                         ~maps'[s].live ]_vars

\* a write-mode path-mapped object destroyed while the flush fails
C13_Witness ==
    /\ last.op = "destroy"
    /\ mode = "write"
    /\ Len(calls) = 3
    /\ calls[1].call = "msync"
    /\ ~calls[1].ok
    /\ calls[2].ok
    /\ calls[3].ok

\* C14: in write mode every release of an OS mapping (a munmap issued by
\* unmap(), by a map that replaces the mapping, by move assignment or by the
\* destructor) is preceded, in the same operation, by a flush (msync) of
\* that mapping.
C14_FlushBeforeRelease ==
    [][ (last'.op \in LibraryOps /\ mode = "write")
        => \A i \in OkCallsOf(calls', "munmap") :
              \E j \in CallsOf(calls', "msync") :
                 /\ j < i
                 /\ calls'[j].addr = calls'[i].addr
                 /\ calls'[j].len = calls'[i].len ]_vars

\* C15: sync on an object that is not mapped sets bad_file_descriptor and
\* issues no OS call; on a Mapped object it issues one msync from the base
\* of the object's OS mapping over the whole length of that mapping, leaves
\* the error clear if the msync succeeded and sets the OS's system error if
\* it failed; sync changes no field of any object and releases nothing.
C15_Sync ==
    [][ last'.op = "sync"
        => LET obj == objs[last'.obj] IN
           /\ objs' = objs
           /\ maps' = maps
           /\ fds' = fds
           /\ IF ~is_open(obj)
              THEN /\ last'.error = bad_file_descriptor
                   /\ calls' = <<>>
              ELSE /\ Len(calls') = 1
                   /\ calls'[1].call = "msync"
                   /\ \E s \in Slots :
                         /\ maps[s].live
                         /\ SlotBase(s) <= data(obj)
                         /\ data(obj) < SlotBase(s) + PageSize
                         /\ calls'[1].addr = SlotBase(s)
                         /\ calls'[1].len = maps[s].len
                   /\ calls'[1].ok => last'.error = OK
                   /\ ~calls'[1].ok => last'.error = SysError("EIO") ]_vars

\* a failing flush of a mapping whose data pointer is past the mapping base
C15_Witness ==
    /\ last.op = "sync"
    /\ last.error = SysError("EIO")
    /\ get_mapping_start(objs[last.obj]) < data(objs[last.obj])

\* C16: a.swap(b) gives a every field b had and b every field a had, leaves
\* every other object alone, issues no OS call and releases nothing; a second
\* a.swap(b) applied to the result gives back the objects as they were; and
\* a.swap(a) changes nothing.
C16_Swap ==
    [][ last'.op = "swap"
        => /\ objs'[last'.obj] = objs[last'.other]
           /\ objs'[last'.other] = objs[last'.obj]
           /\ \A o \in Objs \ {last'.obj, last'.other} : objs'[o] = objs[o]
           /\ calls' = <<>>
           /\ maps' = maps
           /\ fds' = fds
           /\ swap([objs |-> objs', fds |-> fds', maps |-> maps', calls |-> <<>>,
                    errno |-> "0"], last'.obj, last'.other).objs = objs
           /\ last'.obj = last'.other => objs' = objs ]_vars

\* a swap of two Mapped objects, one owning its handle and one not
C16_Witness ==
    /\ last.op = "swap"
    /\ last.obj # last.other
    /\ is_open(objs[last.obj])
    /\ is_open(objs[last.other])
    /\ objs[last.obj].is_handle_internal_ # objs[last.other].is_handle_internal_

\* C17: after a successful map with offset o on the file of F bytes, length()
\* is F - o if the requested length was the sentinel 0, and the requested
\* length otherwise.
C17_EffectiveLength ==
    (last.op \in MapOps \cup FactoryOps /\ last.error = OK)
    => length(objs[last.obj])
          = (IF last.len = map_entire_file THEN FileLen("f") - last.offset ELSE last.len)

\* a successful rest-of-file map from an offset inside the file
C17_Witness ==
    /\ last.op \in MapOps \cup FactoryOps
    /\ last.error = OK
    /\ last.len = map_entire_file
    /\ last.offset > 0
    /\ length(objs[last.obj]) < FileLen("f")

\* a successful map with an explicit length
C17_WitnessExplicit ==
    /\ last.op \in MapOps \cup FactoryOps
    /\ last.error = OK
    /\ last.len = 2
    /\ length(objs[last.obj]) = 2

FailedCallsOf(cs, name) == CallsOf(cs, name) \ OkCallsOf(cs, name)

\* C18: a map call reports, in this order of precedence: invalid_argument
\* for an empty or null path (before any OS call); the system error of open
\* if the file cannot be opened; bad_file_descriptor for the invalid handle
\* (before any file-size query); the system error of the file-size query if
\* it fails; invalid_argument if offset + length is greater than the file's
\* length (no mapping call is issued); otherwise the system error of the
\* mapping call if that fails, and no error if it succeeds.
C18_ErrorPrecedence ==
    last.op \in MapOps \cup FactoryOps
    => IF last.op \in PathOps /\ last.path \in {NullPath, ""}
       THEN last.error = invalid_argument /\ calls = <<>>
       ELSE IF FailedCallsOf(calls, "open") # {}
       THEN last.error \in {SysError("ENOENT"), SysError("EMFILE")} /\ Len(calls) = 1
       ELSE IF last.op \in HandleOps /\ last.handle = invalid_handle
       THEN last.error = bad_file_descriptor /\ calls = <<>>
       ELSE IF FailedCallsOf(calls, "fstat") # {}
       THEN /\ last.error \in {SysError("EBADF"), SysError("EIO")}
            /\ CallsOf(calls, "mmap") = {}
       ELSE IF last.offset + last.len > FileLen("f")
       THEN last.error = invalid_argument /\ CallsOf(calls, "mmap") = {}
       ELSE IF FailedCallsOf(calls, "mmap") # {}
       THEN last.error \in {SysError("EINVAL"), SysError("ENOMEM"), SysError("EBADF")}
       ELSE last.error = OK

\* the object holds an OS mapping that this call created
AdoptedNewMapping ==
    /\ is_open(objs[last.obj])
    /\ \E i \in OkCallsOf(calls, "mmap") :
          /\ get_mapping_start(objs[last.obj]) = calls[i].addr
          /\ file_handle(objs[last.obj]) = calls[i].fd
          /\ \E s \in Slots : maps[s].live /\ SlotBase(s) = calls[i].addr

\* C19: after a map call (either overload, on an object or through a
\* factory) the error is clear if and only if the call created an OS mapping
\* and the object holds it, whatever the error held when the call was made.
C19_ErrorClearIffMapped ==
    last.op \in MapOps \cup FactoryOps
    => (last.error = OK <=> AdoptedNewMapping)

\* a successful map handed an error_code that held an earlier error
C19_Witness ==
    /\ last.op \in MapOps \cup FactoryOps
    /\ last.errIn = StaleError
    /\ last.error = OK
    /\ AdoptedNewMapping

\* a failed map handed a clear error_code
C19_WitnessFailed ==
    /\ last.op \in MapOps \cup FactoryOps
    /\ last.errIn = OK
    /\ last.error # OK
    /\ ~AdoptedNewMapping

\* the OS mapping an open object holds
HeldSlots(obj) == SlotAt(World, get_mapping_start(obj), mapped_length(obj))

\* C20: in every state, a live object that is Mapped holds an OS mapping, and
\* its ownership flag is true if that mapping was created by a path-based map
\* (on this object or on the one it was moved or swapped from) and false if it
\* was created by a handle-based map.
C20_OwnershipFlag ==
    \A o \in Objs :
        (alive[o] /\ is_open(objs[o]))
        => /\ HeldSlots(objs[o]) # {}
           /\ \A s \in HeldSlots(objs[o]) : objs[o].is_handle_internal_ = maps[s].viaPath

\* a path-created mapping that reached its holder by move construction
C20_Witness ==
    /\ last.op = "move_construct"
    /\ is_open(objs[last.obj])
    /\ objs[last.obj].is_handle_internal_
    /\ \E s \in HeldSlots(objs[last.obj]) : maps[s].viaPath

\* a handle-created mapping in an object that held a path-created one before
C20_WitnessHandle ==
    /\ last.op = "map_handle"
    /\ last.error = OK
    /\ OkCallsOf(calls, "close") # {}
    /\ ~objs[last.obj].is_handle_internal_
    /\ \E s \in HeldSlots(objs[last.obj]) : ~maps[s].viaPath

\* the live wrappers that reference object o
RefsOf(wl, pp, o) == {x \in Wrappers : wl[x] /\ pp[x] = o}

\* construction, assignment and destruction of wrappers
WrapperLifeOps ==
    {"shared_copy", "shared_move", "shared_copy_assign", "shared_move_assign", "shared_destroy"}

\* C21: a copy, move, assignment or destruction of wrappers releases the OS
\* mapping of an open object that only wrappers reference exactly when it
\* leaves no live wrapper referencing the object: while a wrapper still
\* references it the object keeps its mapping, is_open() and its size, and
\* when none does the mapping is released in that same operation.
C21_ReleasedWithLastWrapper ==
    [][ last'.op \in WrapperLifeOps
        => \A o \in Objs :
              (alive[o] /\ is_open(objs[o]) /\ held[o] = 0)
              => IF RefsOf(wlive', pimpl', o) # {}
                 THEN /\ alive'[o]
                      /\ objs'[o] = objs[o]
                      /\ \A s \in HeldSlots(objs[o]) : maps'[s] = maps[s]
                 ELSE /\ ~alive'[o]
                      /\ HeldSlots(objs[o]) # {}
                      /\ \A s \in HeldSlots(objs[o]) : ~maps'[s].live ]_vars

\* one of two wrappers of an open object is destroyed and the other keeps it
C21_Witness ==
    /\ last.op = "shared_destroy"
    /\ calls = <<>>
    /\ \E x \in Wrappers : /\ wlive[x]
                            /\ pimpl[x] # NullPtr
                            /\ is_open(objs[pimpl[x]])
                            /\ size(objs[pimpl[x]]) > 0

\* the last wrapper of an open object is assigned another object
C21_WitnessLast ==
    /\ last.op = "shared_copy_assign"
    /\ OkCallsOf(calls, "munmap") # {}
    /\ \E x \in Wrappers : wlive[x] /\ pimpl[x] # NullPtr /\ is_open(objs[pimpl[x]])

\* what a wrapper reports: is_open() and size() of basic_shared_mmap
shared_is_open(pp, ob, x) == pp[x] # NullPtr /\ is_open(ob[pp[x]])
shared_size(pp, ob, x) == IF pp[x] # NullPtr THEN size(ob[pp[x]]) ELSE 0

\* the step is a map call on a wrapper whose object other owners share
MapOnShared ==
    /\ last'.op = "shared_map_path"
    /\ pimpl[last'.wr] # NullPtr
    /\ use_count[pimpl[last'.wr]] > 1

C23_MapDetachesWhenShared ==
    [][ (last'.op = "shared_map_path" /\ pimpl[last'.wr] # NullPtr /\ last'.error = OK)
        => LET x == last'.wr
               o == pimpl[x]
           IN IF use_count[o] = 1
              THEN pimpl'[x] = o
              ELSE /\ pimpl'[x] # o
                   /\ objs'[o] = objs[o]
                   /\ \A y \in Wrappers \ {x} : pimpl'[y] = pimpl[y] ]_vars

\* C24: unmap() on a wrapper of an open object leaves that wrapper reporting
\* is_open() false; it releases the OS mapping if the wrapper is the sole
\* owner, and otherwise the other wrappers of the object keep is_open(), the
\* size and the data.
C24_UnmapReleasesOwnAccessOnly ==
    [][ (last'.op = "shared_unmap" /\ shared_is_open(pimpl, objs, last'.wr))
        => LET x == last'.wr
               o == pimpl[x]
           IN /\ ~shared_is_open(pimpl', objs', x)
              /\ IF use_count[o] = 1
                 THEN \A s \in HeldSlots(objs[o]) : ~maps'[s].live
                 ELSE /\ \A y \in RefsOf(wlive, pimpl, o) \ {x} :
                            /\ pimpl'[y] = o
                            /\ shared_is_open(pimpl', objs', y)
                      /\ objs'[o] = objs[o]
                      /\ \A s \in HeldSlots(objs[o]) : maps'[s] = maps[s] ]_vars

\* copy construction: the copy references the source's object, which gains
\* one owner, and nothing is asked of the OS
CopyAddsOwner ==
    last'.op = "shared_copy"
    => LET o == pimpl[last'.wr2] IN
       /\ pimpl'[last'.wr] = o
       /\ pimpl'[last'.wr2] = o
       /\ o # NullPtr => use_count'[o] = use_count[o] + 1
       /\ calls' = <<>>
       /\ objs' = objs /\ maps' = maps /\ fds' = fds

\* move construction: the new wrapper takes the source's reference, the
\* source references nothing, and no owner count changes
MoveTransfersOwner ==
    last'.op = "shared_move"
    => /\ pimpl'[last'.wr] = pimpl[last'.wr2]
       /\ pimpl'[last'.wr2] = NullPtr
       /\ ~shared_is_open(pimpl', objs', last'.wr2)
       /\ shared_size(pimpl', objs', last'.wr2) = 0
       /\ use_count' = use_count
       /\ calls' = <<>>
       /\ objs' = objs /\ maps' = maps /\ fds' = fds

C26_WitnessMove ==
    /\ last.op = "shared_move"
    /\ wlive[last.wr2]
    /\ shared_is_open(pimpl, objs, last.wr)
    /\ use_count[pimpl[last.wr]] = 1

\* C25: on a wrapper that references nothing every accessor returns a value
\* (no assertion fails and nothing undefined happens), and the value is the
\* default one: the invalid handle, false, empty, zero, the null pointer, an
\* empty range.
C25_NullWrapperQueriesDefault ==
    (last.op = "shared_query" /\ pimpl[last.wr] = NullPtr)
    => /\ last.res.kind = "value"
       /\ last.res.q \in {"file_handle", "mapping_handle"} => last.res.v = invalid_handle
       /\ last.res.q = "empty" => last.res.v = 1
       /\ last.res.q \notin {"file_handle", "mapping_handle", "empty"}
             => last.res.v = 0 /\ last.res.n = 0

\* C25 amended: on a wrapper that references nothing the accessors
\* file_handle, mapping_handle, is_open, is_mapped, empty, size, length,
\* mapped_length, const data and const as_span return the default value (the
\* invalid handle, false, empty, zero, the null pointer, an empty span) and do
\* not fail; begin/end/rbegin/rend and their c-variants, operator[], non-const
\* data and non-const as_span return nothing defined: their assertion fails
\* or, with assertions compiled out, the behaviour is undefined.
C25_NullWrapperQueries ==
    (last.op = "shared_query" /\ pimpl[last.wr] = NullPtr)
    => IF last.res.q \in {"file_handle", "mapping_handle"}
       THEN last.res.kind = "value" /\ last.res.v = invalid_handle
       ELSE IF last.res.q = "empty"
       THEN last.res.kind = "value" /\ last.res.v = 1
       ELSE IF last.res.q \in {"is_open", "is_mapped", "size", "length", "mapped_length",
                               "data const", "as_span const"}
       THEN last.res.kind = "value" /\ last.res.v = 0 /\ last.res.n = 0
       ELSE last.res.kind \in {"assert", "undefined"}

\* size() of a moved-from wrapper while the other wrapper holds the mapping
C25_Witness ==
    /\ last.op = "shared_query"
    /\ pimpl[last.wr] = NullPtr
    /\ last.res = Result("size", "value", 0, 0)
    /\ \E y \in Wrappers : shared_is_open(pimpl, objs, y)

\* begin() const of a wrapper that references nothing
C25_WitnessAssert ==
    /\ last.op = "shared_query"
    /\ pimpl[last.wr] = NullPtr
    /\ last.res = Result("begin const", "assert", 0, 0)

\* (data pointer, size) of a is lexicographically less than that of b
LexLess(a, b) == data(a) < data(b) \/ (data(a) = data(b) /\ size(a) < size(b))

\* C27: a == b iff the data pointers and the sizes are equal; a < b iff
\* (data pointer, size) of a is lexicographically less than that of b; !=, <=,
\* > and >= agree with these, so exactly one of a < b, a == b, a > b holds;
\* two Unmapped objects compare equal, and two objects whose data pointers
\* differ compare unequal whatever they map.
C27_Comparison ==
    last.op = "compare"
    => LET a == objs[last.obj]
           b == objs[last.other]
           eq == last.cmp[1]
           ne == last.cmp[2]
           lt == last.cmp[3]
           le == last.cmp[4]
           gt == last.cmp[5]
           ge == last.cmp[6]
       IN /\ eq <=> (data(a) = data(b) /\ size(a) = size(b))
          /\ lt <=> LexLess(a, b)
          /\ gt <=> LexLess(b, a)
          /\ ne <=> ~eq
          /\ le <=> (lt \/ eq)
          /\ ge <=> (gt \/ eq)
          /\ Cardinality({i \in {1, 3, 5} : last.cmp[i]}) = 1
          /\ (~is_open(a) /\ ~is_open(b)) => eq
          /\ data(a) # data(b) => ne

\* two objects that map the same bytes of the same file compare unequal
C27_Witness ==
    /\ last.op = "compare"
    /\ last.obj # last.other
    /\ is_open(objs[last.obj])
    /\ is_open(objs[last.other])
    /\ size(objs[last.obj]) = size(objs[last.other])
    /\ MemByte(World, data(objs[last.obj])) = MemByte(World, data(objs[last.other]))
    /\ last.cmp[2]
    /\ ~last.cmp[1]

\* C28: for every offset of the size type and every page granularity P > 0,
\* make_offset_page_aligned(offset) is a multiple of P, is at most offset,
\* is less than P below offset, and no multiple of P between it and offset
\* exists: it is the largest multiple of P not exceeding offset.
C28_AlignDown ==
    \A t \in Threads :
        (thr[t].fn = "align" /\ thr[t].pc = "idle" /\ thr[t].ncalls > 0)
        => LET P == granularity
               offset == thr[t].offset
               a == thr[t].aligned
           IN /\ P > 0
              /\ a % P = 0
              /\ a <= offset
              /\ offset - a < P
              /\ \A m \in 0 .. offset : m % P = 0 => m <= a

\* one of the two largest offsets of the size type aligned to a granularity
\* that does not divide it and is not a power of two
C28_Witness ==
    /\ thr[1].fn = "align"
    /\ thr[1].pc = "idle"
    /\ thr[1].ncalls > 0
    /\ thr[1].offset >= Modulus - 2
    /\ granularity = 3
    /\ thr[1].aligned < thr[1].offset

\* C29: whatever the interleaving of the threads' calls of page_size(), the
\* OS is asked for the granularity at most once, exactly once by the time any
\* call returns, and every call that has returned, first or later, returned
\* the one value the OS reported, which is the value cached.
C29_PageSizeOnce ==
    /\ queries <= 1
    /\ static_page_size.state = "done"
          => queries = 1 /\ static_page_size.value = granularity
    /\ \A t \in Threads :
          thr[t].ret # 0
          => /\ queries = 1
             /\ static_page_size.state = "done"
             /\ thr[t].ret = static_page_size.value
             /\ \A u \in Threads : thr[u].ret # 0 => thr[u].ret = thr[t].ret

\* two threads entered before the static was initialized, one initialized it,
\* and both have returned, one of them from a later call as well
C29_Witness ==
    /\ \A t \in Threads : thr[t].pc = "idle" /\ thr[t].ncalls > 0
    /\ \E t \in Threads : thr[t].ncalls = MaxCalls
    /\ \E t \in Threads : thr[t].tmp = 0
    /\ \E t \in Threads : thr[t].tmp # 0
    /\ queries = 1

\* C30: a map of length 0 at the offset equal to the file's length, for a
\* file of any length (zero and multiples of the page size included),
\* returns a clear error and leaves the object open with length() 0, unless
\* the process has run out of descriptors or of address space.
C30_ZeroLengthAtEof ==
    ( /\ last.op = "map_path"
      /\ last.path \in ExistingFiles
      /\ last.offset = FileLen(last.path)
      /\ last.len = 0
      /\ last.error \notin {SysError("EMFILE"), SysError("ENOMEM")} )
    => /\ last.error = OK
       /\ is_open(objs[last.obj])
       /\ length(objs[last.obj]) = 0

\* the zero-length map at the end of a file that ends inside a page
C30_WitnessInsidePage ==
    /\ last.op = "map_path"
    /\ last.path = "f"
    /\ last.offset = FileLen("f")
    /\ last.len = 0
    /\ last.error = OK
    /\ is_open(objs[last.obj])
    /\ length(objs[last.obj]) = 0

\* the file a request names: the path's file, or the file behind the handle
\* if the handle is open (fs is the descriptor table the call found)
RequestFile(l, fs) ==
    IF l.op \in PathOps THEN {l.path} \cap ExistingFiles
    ELSE IF l.handle \in Fds /\ fs[l.handle].open THEN {fs[l.handle].file}
    ELSE {}

\* a request with no usable path or handle
NoTarget(l) ==
    \/ l.op \in PathOps /\ l.path \in {NullPath, ""}
    \/ l.op \in HandleOps /\ l.handle = invalid_handle

C31_WitnessHandle ==
    /\ last.op = "map_handle"
    /\ last.handle = invalid_handle
    /\ last.error = bad_file_descriptor
    /\ last.errIn = StaleError
    /\ calls = <<>>

\* C32: a successful map on a Mapped object issues its mapping call first
\* and then releases the old OS mapping with exactly one munmap of the old
\* base address and mapped length, followed by exactly one close of the old
\* handle if the object owned it and by no close otherwise; a failing map on
\* a Mapped object issues no munmap and no close.
C32_NewBeforeOld ==
    [][ (last'.op \in MapOps /\ is_open(objs[last'.obj]))
        => LET old == objs[last'.obj]
               maps_ == OkCallsOf(calls', "mmap")
               unmaps == CallsOf(calls', "munmap")
               closes == CallsOf(calls', "close")
           IN IF last'.error = OK
              THEN /\ Cardinality(maps_) = 1
                   /\ Cardinality(unmaps) = 1
                   /\ \A j \in unmaps :
                         /\ calls'[j] = Call("munmap", invalid_handle, get_mapping_start(old),
                                            mapped_length(old), 0, TRUE)
                         /\ \A i \in maps_ : i < j
                         /\ \A k \in closes : j < k
                   /\ Cardinality(closes) = (IF old.is_handle_internal_ THEN 1 ELSE 0)
                   /\ \A k \in closes : calls'[k] = Call("close", file_handle(old), 0, 0, 0, TRUE)
              ELSE unmaps = {} /\ closes = {} ]_vars

\* a path-mapped object mapped again by path: mmap, then munmap, then close
C32_Witness ==
    /\ last.op = "map_path"
    /\ last.error = OK
    /\ Len(calls) = 5
    /\ calls[3].call = "mmap"
    /\ calls[4].call = "munmap"
    /\ calls[5].call = "close"
    /\ calls[5].fd # file_handle(objs[last.obj])

\* a failing map on a Mapped object that got as far as the mapping call
C32_WitnessFailed ==
    /\ last.op \in MapOps
    /\ last.error # OK
    /\ FailedCallsOf(calls, "mmap") # {}
    /\ is_open(objs[last.obj])

\* C33: when an OS call fails inside detail::memory_map the function issues
\* no further OS call before it reads the system's last error: the failing
\* call is the last call of the operation, and the error reported is a
\* system error other than "success".
C33_ErrorCapturedAtFailure ==
    (last.op = "memory_map_win" /\ \E i \in 1 .. Len(calls) : ~calls[i].ok)
    => /\ ~calls[Len(calls)].ok
       /\ last.error.cat = "system"
       /\ last.error.code # "ERROR_SUCCESS"

\* the OS mappings of the table mp that the object reports
HeldIn(mp, obj) == SlotAt([maps |-> mp], get_mapping_start(obj), mapped_length(obj))

\* the live objects in the Mapped state that hold the OS mapping s
HoldersOf(al, ob, mp, s) ==
    {o \in Objs : al[o] /\ is_open(ob[o]) /\ s \in HeldIn(mp, ob[o])}

\* C34: after every operation each live OS mapping is held by exactly one
\* live object in the Mapped state, every such object holds a live OS
\* mapping, every munmap the library issues releases a live mapping, and
\* when no object is alive no OS mapping is live.
C34_MappingsMatchObjects ==
    [][ /\ \A s \in Slots : maps'[s].live => Cardinality(HoldersOf(alive', objs', maps', s)) = 1
        /\ \A o \in Objs : (alive'[o] /\ is_open(objs'[o])) => HeldIn(maps', objs'[o]) # {}
        /\ \A i \in CallsOf(calls', "munmap") :
              /\ calls'[i].ok
              /\ \E s \in Slots : maps[s].live /\ SlotBase(s) = calls'[i].addr
        /\ (\A o \in Objs : ~alive'[o]) => \A s \in Slots : ~maps'[s].live ]_vars

\* the last live object, Mapped, is destroyed and its OS mapping goes with it
C34_Witness ==
    /\ last.op = "destroy"
    /\ \A o \in Objs : ~alive[o]
    /\ OkCallsOf(calls, "munmap") # {}
    /\ \A s \in Slots : ~maps[s].live

\* a Mapped object move-assigned from another Mapped object
C34_WitnessMove ==
    /\ last.op = "move_assign"
    /\ OkCallsOf(calls, "munmap") # {}
    /\ is_open(objs[last.obj])
    /\ Cardinality({s \in Slots : maps[s].live}) = 1

\* C35: every munmap and every msync the library issues names the base
\* address that the mapping call of a live OS mapping returned and the byte
\* count that was requested of that mapping call.
C35_ReleaseArgsMatchCreation ==
    [][ last'.op \in LibraryOps
        => \A i \in CallsOf(calls', "munmap") \cup CallsOf(calls', "msync") :
              \E s \in Slots :
                 /\ maps[s].live
                 /\ calls'[i].addr = SlotBase(s)
                 /\ calls'[i].len = maps[s].len ]_vars

\* a write-mode object that was mapped at an unaligned offset is destroyed:
\* flush and release name the same start, which is not the user's pointer
C35_Witness ==
    /\ last.op = "destroy"
    /\ Len(calls) >= 2
    /\ calls[1].call = "msync"
    /\ calls[1].ok
    /\ calls[2].call = "munmap"
    /\ calls[2].ok
    /\ calls[2].addr = calls[1].addr
    /\ calls[2].len = calls[1].len
    /\ calls[2].len = FileLen("f") - AlignDown(PageSize + 1)

\* C36: after a move construction or a move assignment from another object
\* every member of the moved-from object, the ownership flag included,
\* equals that of a default-constructed object.
C36_MovedFromIsDefault ==
    [][ (last'.op \in MoveOps /\ last'.other # last'.obj)
        => objs'[last'.other] = DefaultObj ]_vars

\* C37: the handle that an object reports after a successful map is not a
\* handle that the library itself closed while serving that map call; this
\* includes mapping a path-mapped object again by its own handle.
C37_HandleNotClosedByLibrary ==
    [][ (last'.op \in MapOps /\ last'.error = OK)
        => /\ is_open(objs'[last'.obj])
           /\ \A i \in OkCallsOf(calls', "close") :
                 calls'[i].fd # file_handle(objs'[last'.obj]) ]_vars

C38_WitnessRemap ==
    /\ last.op = "shared_map_path"
    /\ last.error = OK
    /\ Len(calls) = 3
    /\ pimpl[last.wr] # NullPtr
    /\ is_open(objs[pimpl[last.wr]])
    /\ use_count[pimpl[last.wr]] = 2

\* C39: sync(error) on a wrapper that references nothing makes no OS call
\* and leaves error as it was passed in; on a wrapper whose object is
\* Unmapped it makes no OS call either and sets error to bad_file_descriptor.
C39_SyncOnNullOrUnmapped ==
    [][ last'.op = "shared_sync"
        => /\ pimpl[last'.wr] = NullPtr
              => /\ calls' = <<>>
                 /\ last'.error = last'.errIn
                 /\ objs' = objs
                 /\ maps' = maps
           /\ (pimpl[last'.wr] # NullPtr /\ ~is_open(objs[pimpl[last'.wr]]))
              => /\ calls' = <<>>
                 /\ last'.error = bad_file_descriptor ]_vars

\* sync on a wrapper that references nothing, handed an error_code that
\* still held an earlier error, returned with that error in place
C39_Witness ==
    /\ last.op = "shared_sync"
    /\ pimpl[last.wr] = NullPtr
    /\ last.errIn = StaleError
    /\ last.error = StaleError
    /\ calls = <<>>

\* sync on a wrapper whose object is Unmapped, handed a clear error_code
C39_WitnessUnmapped ==
    /\ last.op = "shared_sync"
    /\ pimpl[last.wr] # NullPtr
    /\ ~is_open(objs[pimpl[last.wr]])
    /\ last.errIn = OK
    /\ last.error = bad_file_descriptor

====
